---- MODULE Spec2Model ----
(***************************************************************************)
(* Rating pipeline of TweetFilter-AI: the item processing coordinator      *)
(* (scheduleTweetProcessing / delayedProcessTweet), the retry controller   *)
(* (rateTweetWithOpenRouter, in the bundled script and in the streaming    *)
(* api module), the result cache and the rate limiter.                     *)
(*                                                                         *)
(* JavaScript runs one macrotask at a time: every action below is one      *)
(* macrotask together with the promise continuations it releases.  A       *)
(* pending setTimeout is a position of its pipeline (pc); its timer field   *)
(* is the delay it was given.                                              *)
(***************************************************************************)
EXTENDS Integers, Sequences, FiniteSets, TLC

\* ----------------------------------------------------------------- bounds
\* Pipelines (setTimeout callbacks of scheduleTweetProcessing) ever started.
MaxPipelines == 2
\* Pipelines ever started while responses are streamed.
MaxStreamPipelines == 1
\* Segments of a text handed to the score extractor.
MaxSegs == 4
\* Raw chunks of one streamed response handed to the stream decoder.
MaxChunks == 3
\* handleThreads invocations waiting for a context at the same time.
MaxHandlers == 2
\* Segments of the thread history to which a reply is still appended.
MaxThreadLen == 8

\* ------------------------------------------------------ program constants
PROCESSING_DELAY_MS == 500
API_CALL_DELAY_MS == 250
MAX_RETRIES == 3
\* getFullContext: "Allow a small delay for images to load"
CONTEXT_DELAY_MS == 300
\* rateTweetStreaming: "Save to storage periodically (once per second max)"
SAVE_DEBOUNCE_MS == 1000
\* GM_getValue('filterThreshold', 1)
FilterThreshold == 1
\* score given to an allow-listed author
WhitelistScore == 10
\* score of every failure path
FallbackScore == 5

\* dataset.sloppinessScore that is undefined or ''
NoScore == -1

\* ------------------------------------------------------------------ texts
\* A text is a sequence of one-character strings; a fixed message of the
\* program is one opaque element.
DigitVal ==
  [c \in {"0", "1", "2", "3", "4", "5", "6", "7", "8", "9"} |->
     CASE c = "0" -> 0 [] c = "1" -> 1 [] c = "2" -> 2 [] c = "3" -> 3
       [] c = "4" -> 4 [] c = "5" -> 5 [] c = "6" -> 6 [] c = "7" -> 7
       [] c = "8" -> 8 [] c = "9" -> 9]

IsDigit(c) == c \in DOMAIN DigitVal

IsSpace(c) == c \in {" ", "\n", "\t"}

\* number of digits of text from position i on (\d+ is greedy)
RECURSIVE DigitRun(_, _)
DigitRun(text, i) ==
  IF i <= Len(text) /\ IsDigit(text[i]) THEN 1 + DigitRun(text, i + 1) ELSE 0

\* parseInt(digits, 10) of text[i .. i+n-1]
RECURSIVE ParseInt(_, _, _)
ParseInt(text, i, n) ==
  IF n = 0 THEN 0 ELSE ParseInt(text, i, n - 1) * 10 + DigitVal[text[i + n - 1]]

\* the regular expression matches at position i.  strictS: /SCORE_(\d+)/ ;
\* otherwise /\SCORE_(\d+)/, whose \S is any non-whitespace character.
MatchAt(text, i, strictS) ==
  /\ i + 6 <= Len(text)
  /\ IF strictS THEN text[i] = "S" ELSE ~IsSpace(text[i])
  /\ text[i + 1] = "C"
  /\ text[i + 2] = "O"
  /\ text[i + 3] = "R"
  /\ text[i + 4] = "E"
  /\ text[i + 5] = "_"
  /\ IsDigit(text[i + 6])

\* faulty variant: the rightmost match wins
ScoreMatchLast(text, strictS) ==
  LET hits == {i \in 1..Len(text) : MatchAt(text, i, strictS)} IN
  IF hits = {} THEN NoScore
  ELSE LET i == CHOOSE j \in hits : \A k \in hits : j >= k
       IN ParseInt(text, i + 6, DigitRun(text, i + 6))

\* content.match(re): the leftmost match, parsed; NoScore when there is none
ScoreMatch(text, strictS) ==
  LET hits == {i \in 1..Len(text) : MatchAt(text, i, strictS)} IN
  IF hits = {} THEN NoScore
  ELSE LET i == CHOOSE j \in hits : \A k \in hits : j <= k
       IN ParseInt(text, i + 6, DigitRun(text, i + 6))

\* handle.toLowerCase().trim() on the handles of the model
ToLowerTrim(h) ==
  CASE h = "Alice" -> "alice"
    [] h = "ALICE " -> "alice"
    [] h = "alice" -> "alice"
    [] h = "bob" -> "bob"
    [] OTHER -> h

\* A text held by the program is kept as the sequence of its segments; Chars
\* gives the characters of a segment.  A fixed message of the program is one
\* opaque character.
Chars(seg) ==
  CASE seg = "ok " -> <<"o", "k", " ">>
    [] seg = "meh " -> <<"m", "e", "h", " ">>
    [] seg = "SCORE_7" -> <<"S", "C", "O", "R", "E", "_", "7">>
    [] seg = "SCORE_" -> <<"S", "C", "O", "R", "E", "_">>
    [] seg = "score_" -> <<"s", "c", "o", "r", "e", "_">>
    [] seg = "XCORE_" -> <<"X", "C", "O", "R", "E", "_">>
    [] OTHER -> <<seg>>

RECURSIVE Flatten(_)
Flatten(text) ==
  IF text = <<>> THEN <<>> ELSE Chars(Head(text)) \o Flatten(Tail(text))

\* text.match(re), parsed
ScoreOf(text, strictS) == ScoreMatch(Flatten(text), strictS)

\* messages of the program
MsgWhitelisted == <<"Whitelisted user">>
MsgBlacklisted == <<"Blacklisted user">>
MsgNoKey == <<"No API key">>
MsgProcessingError == <<"error processing tweet">>
MsgRetriesFailed == <<"Failed to get valid rating after multiple attempts">>
MsgNotAvailable == <<"not available">>
MsgTransport == <<"Request error">>

\* response texts of the completion service
TxtScore7 == <<"ok ", "SCORE_7">>
TxtNoScore == <<"meh ">>
Contents == {TxtScore7, TxtNoScore}

\* ------------------------------------------------------------ the document
Tweets == {"t1", "t2"}
\* the articles the timeline renders; e2 shows either a second tweet or, as a
\* re-rendered article, the tweet of e1 (variable tweetOf)
Elems == {"e1", "e2"}
\* href of the first user link of the article
HandleOf == [t \in Tweets |-> IF t = "t1" THEN "bob" ELSE "Alice"]
\* what the user may enter in the handle list
ListEntries == {"alice"}
\* document order of querySelectorAll
ElemOrder == <<"e1", "e2">>

VARIABLES
  tweetOf,            \* getTweetID of each article
  build,              \* "bundle": api.js of the user script; "module": the streaming api module
  enableStreaming,    \* GM_getValue('enableStreaming')
  apiKey,             \* GM_getValue('openrouter-api-key') is non-empty
  blacklistedHandles, \* the allow-list
  inDom,              \* articles in the observed document
  el,                 \* per article: dataset and score indicator
  processedTweets,    \* the in-flight set
  tweetIDRatingCache, \* the result cache
  storedRatings,      \* GM value 'tweetRatings'
  pipelines,          \* the delayedProcessTweet runs, in order of start
  sinceCall,          \* Date.now() - lastAPICallTime, capped
  sinceSave,          \* Date.now() - window.lastCacheSaveTime, capped
  pendingRequests,
  late,               \* a stream completed by the inactivity timer, its reader still attached
  dataset,            \* per conversation element: dataset.threadHist and firstChild.dataset.canary
  threadHist,         \* the script's variable threadHist
  shown,              \* the conversation element document.querySelector finds
  handlers,           \* handleThreads invocations suspended at an await
  call                \* a function examined in isolation: [fn, arg, done, ret]

vars == <<tweetOf, build, enableStreaming, apiKey, blacklistedHandles, inDom, el,
          processedTweets, tweetIDRatingCache, storedRatings, pipelines,
          sinceCall, sinceSave, pendingRequests, late, dataset, threadHist, shown,
          handlers, call>>

\* the state of handleThreads
threads == <<dataset, threadHist, shown, handlers>>

\* what no step of the pipeline changes
config == <<tweetOf, build, enableStreaming, apiKey, call, threads>>

\* the variables of the pipeline
program == <<tweetOf, build, enableStreaming, apiKey, blacklistedHandles, inDom, el,
             processedTweets, tweetIDRatingCache, storedRatings, pipelines,
             sinceCall, sinceSave, pendingRequests, late, threads>>

SaveCap == SAVE_DEBOUNCE_MS + 1

Min(a, b) == IF a < b THEN a ELSE b

\* the pipelines one behaviour starts
PipelineCap == IF enableStreaming THEN MaxStreamPipelines ELSE MaxPipelines

\* ----------------------------------------------------------- presentation
FreshElem ==
  [status |-> "", score |-> NoScore, desc |-> <<>>, blacklisted |-> FALSE,
   indicator |-> FALSE, cls |-> "", hidden |-> FALSE]

\* setScoreIndicator: creates the indicator if missing, sets its class
SetScoreIndicator(a, status) ==
  [a EXCEPT !.indicator = TRUE,
            !.cls = IF status \in {"pending", "error", "cached", "blacklisted"}
                    THEN status ELSE "rated"]

\* filterSingleTweet
FilterSingleTweet(a) ==
  LET score == IF a.score = NoScore THEN 1 ELSE a.score
      a1 == SetScoreIndicator(a, IF a.status = "" THEN "rated" ELSE a.status)
  IN [a1 EXCEPT !.hidden = IF a.status = "pending" THEN FALSE
                           ELSE score < FilterThreshold]

\* isUserBlacklisted
IsUserBlacklisted(handle, list) ==
  /\ handle # ""
  /\ \E h \in list : ToLowerTrim(h) = ToLowerTrim(handle)

\* faulty variant: a cached rating is shown as a fresh one (status rated)
ApplyTweetCachedRatingAsRated(a, t, list, cache) ==
  IF IsUserBlacklisted(HandleOf[t], list)
  THEN FilterSingleTweet(SetScoreIndicator(
         [a EXCEPT !.score = WhitelistScore, !.blacklisted = TRUE,
                   !.status = "blacklisted", !.desc = <<"Whtielisted user">>],
         "blacklisted"))
  ELSE IF t \in DOMAIN cache
  THEN FilterSingleTweet(SetScoreIndicator(
         [a EXCEPT !.score = cache[t].score,
                   !.status = "rated", !.desc = cache[t].description],
         "rated"))
  ELSE a

\* applyTweetCachedRating: the article after the call (unchanged when nothing applies)
ApplyTweetCachedRating(a, t, list, cache) ==
  IF IsUserBlacklisted(HandleOf[t], list)
  THEN FilterSingleTweet(SetScoreIndicator(
         [a EXCEPT !.score = WhitelistScore, !.blacklisted = TRUE,
                   !.status = "blacklisted", !.desc = <<"Whtielisted user">>],
         "blacklisted"))
  ELSE IF t \in DOMAIN cache
  THEN FilterSingleTweet(SetScoreIndicator(
         [a EXCEPT !.score = cache[t].score,
                   !.status = "cached", !.desc = cache[t].description],
         "cached"))
  ELSE a

\* ------------------------------------------------------------ coordinator
NewPipeline(e) ==
  [elem |-> e, id |-> tweetOf[e], pc |-> "delay", timer |-> PROCESSING_DELAY_MS,
   due |-> FALSE,
   attempt |-> 0, waited |-> 0, article |-> "none", agg |-> <<>>,
   context |-> <<>>, dispatches |-> 0, sleeps |-> <<>>, outcome |-> "",
   result |-> [score |-> NoScore, content |-> <<>>, error |-> FALSE]]

\* scheduleTweetProcessing on the coordinator state s = [el, pt, pl]
ScheduleTweetProcessing(s, e, list, cache) ==
  LET t == tweetOf[e]
      a == s.el[e]
  IN
  IF IsUserBlacklisted(HandleOf[t], list)
  THEN [s EXCEPT !.el[e] = FilterSingleTweet(SetScoreIndicator(
         [a EXCEPT !.score = WhitelistScore, !.blacklisted = TRUE,
                   !.status = "rated", !.desc = MsgWhitelisted],
         "blacklisted"))]
  ELSE IF t \in DOMAIN cache
  THEN [s EXCEPT !.el[e] = ApplyTweetCachedRating(a, t, list, cache)]
  ELSE IF t \in s.pt /\ a.indicator
  THEN s
  ELSE [el |-> [s.el EXCEPT ![e] = SetScoreIndicator(
                  [a EXCEPT !.status = "pending"], "pending")],
        pt |-> s.pt \cup {t},
        pl |-> Append(s.pl, NewPipeline(e))]

Coord == [el |-> el, pt |-> processedTweets, pl |-> pipelines]

\* ensureAllTweetsRated, one article of its forEach
EnsureOne(s, e, list, cache) ==
  LET t == tweetOf[e]
      a == s.el[e]
      s1 == IF t \in s.pt /\ ~a.indicator THEN [s EXCEPT !.pt = @ \ {t}] ELSE s
      needsProcessing == a.score = NoScore \/ a.status = "error" \/ ~a.indicator
  IN IF needsProcessing /\ t \notin s1.pt
     THEN ScheduleTweetProcessing(s1, e, list, cache)
     ELSE s1

\* forEach over the articles of dom, in document order, from position k on
RECURSIVE ForEachSchedule(_, _, _, _, _)
ForEachSchedule(s, k, dom, list, cache) ==
  IF k > Len(ElemOrder) THEN s
  ELSE ForEachSchedule(
         IF ElemOrder[k] \in dom
         THEN ScheduleTweetProcessing(s, ElemOrder[k], list, cache) ELSE s,
         k + 1, dom, list, cache)

RECURSIVE EnsureAllTweetsRated(_, _, _, _, _)
EnsureAllTweetsRated(s, k, dom, list, cache) ==
  IF k > Len(ElemOrder) THEN s
  ELSE EnsureAllTweetsRated(
         IF ElemOrder[k] \in dom THEN EnsureOne(s, ElemOrder[k], list, cache) ELSE s,
         k + 1, dom, list, cache)

\* clearTweetRatingsAndRefreshUI, the forEach that re-processes the visible articles
RECURSIVE ClearForEach(_, _, _, _)
ClearForEach(s, k, dom, list) ==
  IF k > Len(ElemOrder) THEN s
  ELSE LET e == ElemOrder[k]
           s1 == [s EXCEPT !.el[e] = [@ EXCEPT !.score = NoScore,
                                               !.blacklisted = FALSE],
                           !.pt = @ \ {tweetOf[e]}]
       IN ClearForEach(
            IF e \in dom THEN ScheduleTweetProcessing(s1, e, list, <<>>) ELSE s,
            k + 1, dom, list)

\* ----------------------------------------------------- the stored ratings
\* The value of 'tweetRatings' is JSON text, here the sequence of its tokens:
\* punctuation, literals, numbers in decimal, and the characters of strings
\* between quotes (a segment of a text counts as one character).

\* the order in which the keys of the cache are written
TweetOrder == <<"t1", "t2">>

\* the instant Date.now() gives to a finalized entry, in ms
NowMs == 1000

\* faulty variant: the backslash is written as it is
EscapeQuoteOnly(seg) ==
  IF seg = "\"" THEN <<"\\", "\"">>
  ELSE IF seg = "\n" THEN <<"\\", "n">>
  ELSE <<seg>>

\* JSON.stringify of one character of a string
EscapeSeg(seg) ==
  IF seg = "\"" THEN <<"\\", "\"">>
  ELSE IF seg = "\\" THEN <<"\\", "\\">>
  ELSE IF seg = "\n" THEN <<"\\", "n">>
  ELSE <<seg>>

RECURSIVE EscapeText(_)
EscapeText(text) ==
  IF text = <<>> THEN <<>> ELSE EscapeSeg(Head(text)) \o EscapeText(Tail(text))

\* JSON.stringify of a string
JSONString(text) == <<"\"">> \o EscapeText(text) \o <<"\"">>

\* JSON.stringify of a score: a number, or null
JSONScore(score) == IF score = NoScore THEN <<"null">> ELSE <<ToString(score)>>

JSONField(name, value) == JSONString(<<name>>) \o <<":">> \o value

\* JSON.stringify of a cache entry: the properties the object has, in the order
\* the object literals of the script give them
JSONEntry(e) ==
  <<"{">>
    \o JSONField("tweetContent", JSONString(e.tweetContent)) \o <<",">>
    \o JSONField("score", JSONScore(e.score)) \o <<",">>
    \o JSONField("description", JSONString(e.description))
    \o (IF e.streaming = "absent" THEN <<>>
        ELSE <<",">> \o JSONField("streaming", <<e.streaming>>))
    \o (IF e.timestamp THEN <<",">> \o JSONField("timestamp", <<ToString(NowMs)>>)
        ELSE <<>>)
    \o <<"}">>

RECURSIVE JSONMembers(_, _, _)
JSONMembers(cache, k, first) ==
  IF k > Len(TweetOrder) THEN <<>>
  ELSE IF TweetOrder[k] \notin DOMAIN cache THEN JSONMembers(cache, k + 1, first)
  ELSE (IF first THEN <<>> ELSE <<",">>)
         \o JSONField(TweetOrder[k], JSONEntry(cache[TweetOrder[k]]))
         \o JSONMembers(cache, k + 1, FALSE)

\* JSON.stringify(tweetIDRatingCache)
JSONStringify(cache) == <<"{">> \o JSONMembers(cache, 1, TRUE) \o <<"}">>

\* saveTweetRatings: the value GM_setValue stores
SaveTweetRatings(cache) == JSONStringify(cache)

\* JSON.parse: each step gives [ok, val, next], next the position after the
\* value read; a syntax error gives ok = FALSE
ParseFailed == [ok |-> FALSE, val |-> <<>>, next |-> 0]

\* the characters of a string up to its closing quote, from position p
RECURSIVE ParseStringFrom(_, _, _)
ParseStringFrom(toks, p, acc) ==
  IF p > Len(toks) THEN ParseFailed
  ELSE IF toks[p] = "\"" THEN [ok |-> TRUE, val |-> acc, next |-> p + 1]
  ELSE IF toks[p] = "\n" THEN ParseFailed
  ELSE IF toks[p] = "\\"
  THEN IF p + 1 > Len(toks) THEN ParseFailed
       ELSE IF toks[p + 1] = "n" THEN ParseStringFrom(toks, p + 2, Append(acc, "\n"))
       ELSE IF toks[p + 1] \in {"\"", "\\"}
       THEN ParseStringFrom(toks, p + 2, Append(acc, toks[p + 1]))
       ELSE ParseFailed
  ELSE ParseStringFrom(toks, p + 1, Append(acc, toks[p]))

\* the numbers the script writes
JSONNumbers == (0..10) \cup {NowMs}

\* a string, a literal or a number at position p
ParseValue(toks, p) ==
  IF p > Len(toks) THEN ParseFailed
  ELSE IF toks[p] = "\"" THEN ParseStringFrom(toks, p + 1, <<>>)
  ELSE IF toks[p] \in {"true", "false"}
  THEN [ok |-> TRUE, val |-> toks[p], next |-> p + 1]
  ELSE IF toks[p] = "null" THEN [ok |-> TRUE, val |-> NoScore, next |-> p + 1]
  ELSE IF \E n \in JSONNumbers : ToString(n) = toks[p]
  THEN [ok |-> TRUE, val |-> CHOOSE n \in JSONNumbers : ToString(n) = toks[p],
        next |-> p + 1]
  ELSE ParseFailed

\* an object without the optional properties
BareEntry ==
  [tweetContent |-> <<>>, score |-> NoScore, description |-> <<>>,
   streaming |-> "absent", timestamp |-> FALSE]

WithProperty(e, key, value) ==
  IF key = <<"tweetContent">> THEN [e EXCEPT !.tweetContent = value]
  ELSE IF key = <<"score">> THEN [e EXCEPT !.score = value]
  ELSE IF key = <<"description">> THEN [e EXCEPT !.description = value]
  ELSE IF key = <<"streaming">> THEN [e EXCEPT !.streaming = value]
  ELSE IF key = <<"timestamp">> THEN [e EXCEPT !.timestamp = TRUE]
  ELSE e

\* the properties of an entry from position p (a key), up to its closing brace
RECURSIVE ParseProperties(_, _, _)
ParseProperties(toks, p, e) ==
  IF p > Len(toks) \/ toks[p] # "\"" THEN ParseFailed
  ELSE LET key == ParseStringFrom(toks, p + 1, <<>>) IN
       IF ~key.ok \/ key.next > Len(toks) \/ toks[key.next] # ":" THEN ParseFailed
       ELSE LET value == ParseValue(toks, key.next + 1) IN
            IF ~value.ok \/ value.next > Len(toks) THEN ParseFailed
            ELSE LET e1 == WithProperty(e, key.val, value.val) IN
                 IF toks[value.next] = "}"
                 THEN [ok |-> TRUE, val |-> e1, next |-> value.next + 1]
                 ELSE IF toks[value.next] = ","
                 THEN ParseProperties(toks, value.next + 1, e1)
                 ELSE ParseFailed

\* the members of the cache object from position p (a key)
RECURSIVE ParseMembers(_, _, _)
ParseMembers(toks, p, cache) ==
  IF p > Len(toks) \/ toks[p] # "\"" THEN ParseFailed
  ELSE LET key == ParseStringFrom(toks, p + 1, <<>>) IN
       IF \/ ~key.ok
          \/ Len(key.val) # 1
          \/ key.next + 1 > Len(toks)
          \/ toks[key.next] # ":"
          \/ toks[key.next + 1] # "{"
       THEN ParseFailed
       ELSE LET entry == ParseProperties(toks, key.next + 2, BareEntry) IN
            IF ~entry.ok \/ entry.next > Len(toks) THEN ParseFailed
            ELSE LET t == key.val[1]
                     cache1 == [x \in DOMAIN cache \cup {t} |->
                                  IF x = t THEN entry.val ELSE cache[x]]
                 IN IF toks[entry.next] = "}"
                    THEN [ok |-> TRUE, val |-> cache1, next |-> entry.next + 1]
                    ELSE IF toks[entry.next] = ","
                    THEN ParseMembers(toks, entry.next + 1, cache1)
                    ELSE ParseFailed

\* JSON.parse(storedRatings)
JSONParse(toks) ==
  IF Len(toks) < 2 \/ toks[1] # "{" THEN ParseFailed
  ELSE IF toks[2] = "}" THEN [ok |-> TRUE, val |-> <<>>, next |-> 3]
  ELSE ParseMembers(toks, 2, <<>>)

\* the load at start-up: Object.assign(tweetIDRatingCache, JSON.parse(storedRatings))
\* into the empty cache, inside try/catch
LoadRatings(stored) ==
  LET r == JSONParse(stored) IN
  IF r.ok /\ r.next = Len(stored) + 1 THEN r.val ELSE <<>>

\* The timeline shows a tweet in one article at a time: the document once
\* article e has been rendered, in place of the article that showed its tweet.
Rendered(dom, e) == (dom \ {x \in Elems : tweetOf[x] = tweetOf[e]}) \cup {e}

\* an article the timeline can hand to the script: one that is in the document,
\* or a newly created one
Discoverable(e) == e \in inDom \/ el[e] = FreshElem

\* a discovery event (handleMutations of the observer initializeObserver has
\* installed): the article is in the document and is scheduled
Schedule(e) ==
  LET s == ScheduleTweetProcessing(Coord, e, blacklistedHandles, tweetIDRatingCache) IN
  /\ apiKey
  /\ Discoverable(e)
  /\ Len(s.pl) <= PipelineCap
  /\ inDom' = Rendered(inDom, e)
  /\ el' = s.el
  /\ processedTweets' = s.pt
  /\ pipelines' = s.pl
  /\ UNCHANGED <<config, late, blacklistedHandles, tweetIDRatingCache, storedRatings,
                 sinceCall, sinceSave, pendingRequests>>

\* initializeObserver without an API key stops before it schedules the visible
\* articles and before it installs the observer: an article that is rendered
\* is not scheduled
Render(e) ==
  /\ ~apiKey
  /\ e \notin inDom
  /\ el[e] = FreshElem
  /\ inDom' = Rendered(inDom, e)
  /\ UNCHANGED <<config, late, blacklistedHandles, el, processedTweets, tweetIDRatingCache,
                 storedRatings, pipelines, sinceCall, sinceSave, pendingRequests>>

ClearTweetRatingsAndRefreshUI ==
  LET s == ClearForEach(Coord, 1, inDom, blacklistedHandles) IN
  /\ Len(s.pl) <= PipelineCap
  /\ tweetIDRatingCache' = <<>>
  /\ storedRatings' = <<"{", "}">>
  /\ el' = s.el
  /\ processedTweets' = s.pt
  /\ pipelines' = s.pl
  /\ UNCHANGED <<config, late, blacklistedHandles, inDom, sinceCall, sinceSave,
                 pendingRequests>>

\* addHandleToBlacklist
AddHandle(h) ==
  /\ h \notin blacklistedHandles
  /\ blacklistedHandles' = blacklistedHandles \cup {h}
  /\ UNCHANGED <<config, late, inDom, el, processedTweets, tweetIDRatingCache, storedRatings,
                 pipelines, sinceCall, sinceSave, pendingRequests>>

\* removeHandleFromBlacklist
RemoveHandle(h) ==
  /\ h \in blacklistedHandles
  /\ blacklistedHandles' = blacklistedHandles \ {h}
  /\ UNCHANGED <<config, late, inDom, el, processedTweets, tweetIDRatingCache, storedRatings,
                 pipelines, sinceCall, sinceSave, pendingRequests>>

\* ------------------------------------------------------- delayedProcessTweet
Pipe(i) == pipelines[i]
Ids == 1..Len(pipelines)

\* the pipeline has returned
Done(pr, outcome, result) ==
  [pr EXCEPT !.pc = "done", !.timer = 0, !.due = FALSE, !.outcome = outcome, !.result = result,
             !.article = "none", !.agg = <<>>, !.waited = 0]

NoResult == [score |-> NoScore, content |-> <<>>, error |-> FALSE]

\* [TWEET id] Author:@handle: text, as getFullContext assembles it
ContextOf(t) == <<"[TWEET]", t, HandleOf[t]>>

\* faulty variant: the finally block leaves the marker in place
FinallyKeepsMarker(processingSuccessful, pt0, t) == pt0

\* the finally block of delayedProcessTweet: the in-flight set it leaves
Finally(processingSuccessful, pt0, t) ==
  IF processingSuccessful THEN pt0 ELSE pt0 \ {t}

\* faulty variant: the early return leaves the marker in place
MarkerKept(pt0, t) == pt0

\* processedTweets.delete(tweetId) of the early return without an API key
MarkerDeleted(pt0, t) == pt0 \ {t}

\* the setTimeout callback of scheduleTweetProcessing: delayedProcessTweet up to
\* its first await
DelayedStart(i) ==
  LET pr == Pipe(i)
      e == pr.elem
      t == pr.id
      a == el[e]
  IN
  /\ i \in Ids
  /\ pr.pc = "delay"
  /\ pr.due
  /\ IF ~apiKey
     THEN /\ el' = [el EXCEPT ![e] = FilterSingleTweet(SetScoreIndicator(
                      [a EXCEPT !.status = "error", !.desc = MsgNoKey], "error"))]
          /\ processedTweets' = MarkerDeleted(processedTweets, t)
          /\ pipelines' = [pipelines EXCEPT ![i] = Done(pr, "nokey", NoResult)]
     ELSE IF IsUserBlacklisted(HandleOf[t], blacklistedHandles)
     THEN /\ el' = [el EXCEPT ![e] = FilterSingleTweet(SetScoreIndicator(
                      [a EXCEPT !.score = WhitelistScore, !.blacklisted = TRUE,
                                !.status = "blacklisted", !.desc = MsgBlacklisted],
                      "blacklisted"))]
          /\ processedTweets' = Finally(TRUE, processedTweets, t)
          /\ pipelines' = [pipelines EXCEPT ![i] = Done(pr, "blacklisted", NoResult)]
     ELSE IF t \in DOMAIN tweetIDRatingCache
     THEN /\ el' = [el EXCEPT ![e] =
                      ApplyTweetCachedRating(a, t, blacklistedHandles, tweetIDRatingCache)]
          /\ processedTweets' = Finally(TRUE, processedTweets, t)
          /\ pipelines' = [pipelines EXCEPT ![i] = Done(pr, "cached", NoResult)]
     ELSE /\ el' = el
          /\ processedTweets' = processedTweets
          /\ pipelines' = [pipelines EXCEPT ![i] =
                             [pr EXCEPT !.pc = "context", !.timer = CONTEXT_DELAY_MS,
                                        !.due = FALSE]]
  /\ UNCHANGED <<config, late, blacklistedHandles, inDom, tweetIDRatingCache, storedRatings,
                 sinceCall, sinceSave, pendingRequests>>

\* document.querySelectorAll(article).find(a => getTweetID(a) === tweetId)
RECURSIVE FindArticle(_, _, _)
FindArticle(t, dom, k) ==
  IF k > Len(ElemOrder) THEN "none"
  ELSE IF ElemOrder[k] \in dom /\ tweetOf[ElemOrder[k]] = t THEN ElemOrder[k]
  ELSE FindArticle(t, dom, k + 1)

\* the request leaves: pendingRequests++ and getCompletion / rateTweetStreaming
Dispatch(pr, streaming, dom) ==
  [pr EXCEPT !.pc = "inflight", !.timer = 0, !.due = FALSE, !.waited = 0,
             !.dispatches = @ + 1,
             !.article = IF streaming THEN FindArticle(pr.id, dom, 1) ELSE "none",
             !.agg = <<>>]

\* faulty variant: the dispatch is not counted
BeginAttemptNotCounted(pr, sc, pend, streaming, dom) ==
  LET pr1 == [pr EXCEPT !.attempt = @ + 1] IN
  IF sc < API_CALL_DELAY_MS
  THEN [p |-> [pr1 EXCEPT !.pc = "ratewait", !.timer = API_CALL_DELAY_MS - sc,
                          !.due = FALSE,
                          !.waited = API_CALL_DELAY_MS - sc],
        sc |-> sc, pend |-> pend]
  ELSE [p |-> Dispatch(pr1, streaming, dom), sc |-> 0, pend |-> pend]

\* top of the retry loop: attempt++ and the rate limiter
BeginAttempt(pr, sc, pend, streaming, dom) ==
  LET pr1 == [pr EXCEPT !.attempt = @ + 1] IN
  IF sc < API_CALL_DELAY_MS
  THEN [p |-> [pr1 EXCEPT !.pc = "ratewait", !.timer = API_CALL_DELAY_MS - sc,
                          !.due = FALSE,
                          !.waited = API_CALL_DELAY_MS - sc],
        sc |-> sc, pend |-> pend]
  ELSE [p |-> Dispatch(pr1, streaming, dom), sc |-> 0, pend |-> pend + 1]

\* faulty variant: the loop admits one attempt too many
LoopContinuesOffByOne(attempt) == attempt <= MAX_RETRIES

\* while (attempt < maxRetries)
LoopContinues(attempt) == attempt < MAX_RETRIES

\* faulty variant: the catch block retries without sleeping
BackoffAfterNotThrown(thrown, attempt) == ~thrown /\ attempt < MAX_RETRIES

\* if (attempt < maxRetries) in front of the backoff sleep: after a response
\* without a score and, when the attempt has thrown, in the catch block
BackoffAfter(thrown, attempt) ==
  IF thrown THEN attempt < MAX_RETRIES ELSE attempt < MAX_RETRIES

\* faulty variant: linear backoff
BackoffLinear(attempt) == attempt * 1000

\* Math.pow(attempt, 2) * 1000
BackoffDelay(attempt) == attempt * attempt * 1000

\* faulty variant: exhaustion is not flagged as an error
FailureResultAsSuccess ==
  [score |-> FallbackScore, content |-> MsgRetriesFailed, error |-> FALSE]

\* the value rateTweetWithOpenRouter returns after the loop
FailureResult ==
  [score |-> FallbackScore, content |-> MsgRetriesFailed, error |-> TRUE]

\* faulty variant: the rating is displayed but never put into the cache
AfterRatingNotStored(pr, rating, el0, cache0, pt0) ==
  LET e == pr.elem
      status == IF rating.error THEN "error" ELSE "rated"
      a1 == FilterSingleTweet(SetScoreIndicator(
              [el0[e] EXCEPT !.status = status,
                             !.desc = IF rating.content = <<>> THEN MsgNotAvailable
                                      ELSE rating.content,
                             !.score = rating.score],
              status))
  IN [el |-> [el0 EXCEPT ![e] = a1],
      cache |-> cache0,
      pt |-> Finally(~rating.error, pt0, pr.id)]

\* delayedProcessTweet after rateTweetWithOpenRouter has returned rating:
\* [el, cache, pt] after the try block and the finally block
AfterRating(pr, rating, el0, cache0, pt0) ==
  LET e == pr.elem
      t == pr.id
      status == IF rating.error THEN "error" ELSE "rated"
      a1 == FilterSingleTweet(SetScoreIndicator(
              [el0[e] EXCEPT !.status = status,
                             !.desc = IF rating.content = <<>> THEN MsgNotAvailable
                                      ELSE rating.content,
                             !.score = rating.score],
              status))
      entry == IF t \in DOMAIN cache0
               THEN [cache0[t] EXCEPT !.score = rating.score,
                                      !.description = rating.content,
                                      !.tweetContent = pr.context]
               ELSE [tweetContent |-> pr.context, score |-> rating.score,
                     description |-> rating.content, streaming |-> "absent",
                     timestamp |-> FALSE]
  IN [el |-> [el0 EXCEPT ![e] = a1],
      cache |-> [x \in DOMAIN cache0 \cup {t} |-> IF x = t THEN entry ELSE cache0[x]],
      pt |-> Finally(~rating.error, pt0, t)]

\* the loop test of rateTweetWithOpenRouter and what follows it in the same
\* macrotask: the next attempt up to its first await, or the failure result
\* and delayedProcessTweet's handling of it.  The state after the macrotask.
NextTurn(i, pr, el0, cache0, stored0, sc, pend) ==
  IF LoopContinues(pr.attempt)
  THEN LET b == BeginAttempt(pr, sc, pend, enableStreaming, inDom) IN
       [pl |-> [pipelines EXCEPT ![i] = b.p], el |-> el0, cache |-> cache0,
        stored |-> stored0, pt |-> processedTweets, sc |-> b.sc, pend |-> b.pend]
  ELSE LET r == AfterRating(pr, FailureResult, el0, cache0, processedTweets) IN
       [pl |-> [pipelines EXCEPT ![i] = Done(pr, "exhausted", FailureResult)],
        el |-> r.el, cache |-> r.cache, stored |-> SaveTweetRatings(r.cache),
        pt |-> r.pt, sc |-> sc, pend |-> pend]

\* rateTweetWithOpenRouter after an attempt has ended with res = [error, thrown,
\* content]; thrown: the promise of rateTweetStreaming was rejected and the
\* catch block runs.  The state after the macrotask.
Settle(i, res, el0, cache0, stored0, pend) ==
  LET pr == Pipe(i)
      t == pr.id
      score == IF ~res.error /\ res.content # <<>>
               THEN ScoreOf(res.content, build = "module") ELSE NoScore
      pr1 == [pr EXCEPT !.article = "none", !.agg = <<>>]
  IN
  IF score # NoScore
  THEN LET rating == [score |-> score, content |-> res.content, error |-> FALSE]
           \* the bundled script stores the rating itself before it returns
           cache1 == IF build = "bundle"
                     THEN [x \in DOMAIN cache0 \cup {t} |->
                             IF x = t
                             THEN [tweetContent |-> pr.context, score |-> score,
                                   description |-> res.content, streaming |-> "absent",
                                   timestamp |-> FALSE]
                             ELSE cache0[x]]
                     ELSE cache0
           r == AfterRating(pr, rating, el0, cache1, processedTweets)
       IN [pl |-> [pipelines EXCEPT ![i] = Done(pr, "rated", rating)],
           el |-> r.el, cache |-> r.cache, stored |-> SaveTweetRatings(r.cache),
           pt |-> r.pt, sc |-> sinceCall, pend |-> pend]
  ELSE IF BackoffAfter(res.thrown, pr.attempt)
  THEN [pl |-> [pipelines EXCEPT ![i] =
                  [pr1 EXCEPT !.pc = "backoff", !.timer = BackoffDelay(pr.attempt),
                              !.due = FALSE,
                              !.sleeps = Append(@, BackoffDelay(pr.attempt))]],
        el |-> el0, cache |-> cache0, stored |-> stored0, pt |-> processedTweets,
        sc |-> sinceCall, pend |-> pend]
  ELSE NextTurn(i, pr1, el0, cache0, stored0, sinceCall, pend)

\* getFullContext has returned (ok) or has thrown / returned nothing (~ok); on
\* success rateTweetWithOpenRouter runs up to its first await
ContextDone(i, ok) ==
  LET pr == Pipe(i)
      e == pr.elem
      a == el[e]
      n == NextTurn(i, [pr EXCEPT !.context = ContextOf(pr.id)], el,
                    tweetIDRatingCache, storedRatings, sinceCall, pendingRequests)
  IN
  /\ i \in Ids
  /\ pr.pc = "context"
  /\ pr.due
  /\ IF ok
     THEN /\ pipelines' = n.pl
          /\ el' = n.el
          /\ tweetIDRatingCache' = n.cache
          /\ storedRatings' = n.stored
          /\ processedTweets' = n.pt
          /\ sinceCall' = n.sc
          /\ pendingRequests' = n.pend
     ELSE /\ el' = [el EXCEPT ![e] =
                      IF a.score = NoScore
                      THEN FilterSingleTweet(SetScoreIndicator(
                             [a EXCEPT !.score = FallbackScore, !.status = "error",
                                       !.desc = MsgProcessingError], "error"))
                      ELSE a]
          /\ processedTweets' = Finally(FALSE, processedTweets, pr.id)
          /\ pipelines' = [pipelines EXCEPT ![i] = Done(pr, "ctxfail", NoResult)]
          /\ UNCHANGED <<sinceCall, pendingRequests, tweetIDRatingCache,
                         storedRatings>>
  /\ UNCHANGED <<config, late, blacklistedHandles, inDom, sinceSave>>

\* the rate limiter's setTimeout has fired: lastAPICallTime = now (the time read
\* before the wait), then the request leaves
RateWaitDone(i) ==
  LET pr == Pipe(i) IN
  /\ i \in Ids
  /\ pr.pc = "ratewait"
  /\ pr.due
  /\ pipelines' = [pipelines EXCEPT ![i] =
                     Dispatch(pr, enableStreaming, inDom)]
  /\ sinceCall' = Min(API_CALL_DELAY_MS, pr.waited)
  /\ pendingRequests' = pendingRequests + 1
  /\ UNCHANGED <<config, late, blacklistedHandles, inDom, el, processedTweets,
                 tweetIDRatingCache, storedRatings, sinceSave>>

\* the backoff sleep is over: back to the loop test
BackoffDone(i) ==
  LET pr == Pipe(i)
      n == NextTurn(i, pr, el, tweetIDRatingCache, storedRatings, sinceCall,
                    pendingRequests)
  IN
  /\ i \in Ids
  /\ pr.pc = "backoff"
  /\ pr.due
  /\ pipelines' = n.pl
  /\ el' = n.el
  /\ tweetIDRatingCache' = n.cache
  /\ storedRatings' = n.stored
  /\ processedTweets' = n.pt
  /\ sinceCall' = n.sc
  /\ pendingRequests' = n.pend
  /\ UNCHANGED <<config, late, blacklistedHandles, inDom, sinceSave>>

\* ------------------------------------------------------ completion transport
\* what GM_xmlhttpRequest delivers to getCompletion
ResponseKinds == {"ok", "empty", "status500", "badjson", "neterror", "timeout"}
Responses ==
  {[kind |-> "ok", content |-> c] : c \in Contents}
    \cup {[kind |-> k, content |-> <<>>] : k \in ResponseKinds \ {"ok"}}

\* faulty variant: onload does not test data.content
ResolveCallsUnchecked(resp) ==
  CASE resp.kind \in {"ok", "empty", "nocontent", "nochoices"} ->
         <<[error |-> FALSE, message |-> <<"Request successful">>, content |-> resp.content]>>
    [] resp.kind = "status500" ->
         <<[error |-> TRUE, message |-> <<"Request failed with status 500">>,
            content |-> <<>>]>>
    [] resp.kind = "badjson" ->
         <<[error |-> TRUE, message |-> <<"Failed to parse response">>, content |-> <<>>]>>
    [] resp.kind = "neterror" ->
         <<[error |-> TRUE, message |-> MsgTransport, content |-> <<>>]>>
    [] resp.kind = "timeout" ->
         <<[error |-> TRUE, message |-> <<"Request timed out after 30000ms">>,
            content |-> <<>>]>>

\* the values the handlers of getCompletion pass to resolve, in the order of the
\* calls.  nocontent: the body has content === "" and a first choice, so the
\* handler calls resolve twice; nochoices: content === "" and no choice, so
\* reading choices[0].native_finish_reason throws inside the try block
ResolveCalls(resp) ==
  CASE resp.kind \in {"ok", "empty"} ->
         <<[error |-> FALSE, message |-> <<"Request successful">>, content |-> resp.content]>>
    [] resp.kind = "nocontent" ->
         <<[error |-> TRUE, message |-> <<"No content returned">>, content |-> <<>>],
           [error |-> FALSE, message |-> <<"Request successful">>, content |-> <<>>]>>
    [] resp.kind \in {"badjson", "nochoices"} ->
         <<[error |-> TRUE, message |-> <<"Failed to parse response">>, content |-> <<>>]>>
    [] resp.kind = "status500" ->
         <<[error |-> TRUE, message |-> <<"Request failed with status 500">>,
            content |-> <<>>]>>
    [] resp.kind = "neterror" ->
         <<[error |-> TRUE, message |-> MsgTransport, content |-> <<>>]>>
    [] resp.kind = "timeout" ->
         <<[error |-> TRUE, message |-> <<"Request timed out after 30000ms">>,
            content |-> <<>>]>>

\* getCompletion: {error, message, data} with data.choices[0].message.content;
\* the promise takes the value of the first call of resolve
GetCompletion(resp) == Head(ResolveCalls(resp))

\* rateTweet of the api module: {content, error}
RateTweet(result) ==
  IF ~result.error /\ result.content # <<>>
  THEN [error |-> FALSE, thrown |-> FALSE, content |-> result.content]
  ELSE [error |-> TRUE, thrown |-> FALSE, content |-> result.message]

\* the result the retry loop parses for a score
AttemptResult(resp) ==
  IF build = "module" THEN RateTweet(GetCompletion(resp))
  ELSE [error |-> GetCompletion(resp).error, thrown |-> FALSE,
        content |-> GetCompletion(resp).content]

\* a non-streaming request has completed
Response(i, resp) ==
  LET pr == Pipe(i)
      n == Settle(i, AttemptResult(resp), el, tweetIDRatingCache, storedRatings,
                  pendingRequests - 1)
  IN
  /\ i \in Ids
  /\ pr.pc = "inflight"
  /\ ~enableStreaming
  /\ pipelines' = n.pl
  /\ el' = n.el
  /\ tweetIDRatingCache' = n.cache
  /\ storedRatings' = n.stored
  /\ processedTweets' = n.pt
  /\ sinceCall' = n.sc
  /\ pendingRequests' = n.pend
  /\ UNCHANGED <<config, late, blacklistedHandles, inDom, sinceSave>>

\* ------------------------------------------------------- rateTweetStreaming
\* positions of a pipeline in which a setTimeout is pending
TimedPcs == {"delay", "context", "ratewait", "backoff"}

\* the streams the completion service sends, each as the sequence of the deltas
\* getCompletionStreaming hands to onChunk; a stream may end after any prefix
Streams == {<<"meh ", "SCORE_7", ".">>}
Deltas == {st[k] : st \in Streams, k \in 1..3}
IsStreamPrefix(text) ==
  \E st \in Streams : Len(text) <= Len(st) /\ SubSeq(st, 1, Len(text)) = text

\* no stream of this kind
NoLate == [live |-> FALSE, id |-> "", article |-> "none", agg |-> <<>>, context |-> <<>>]

\* faulty variant: every chunk with a score is persisted
SaveOnEveryChunk(since) == since >= 0

\* if (!window.lastCacheSaveTime || Date.now() - window.lastCacheSaveTime > 1000)
SaveIsDue(since) == since > SAVE_DEBOUNCE_MS

\* faulty variant: the partial entry is written whether or not a score was found
PartialEntryAlways(cache, t, context, cur, agg) ==
  [x \in DOMAIN cache \cup {t} |->
     IF x # t THEN cache[x]
     ELSE IF t \in DOMAIN cache
     THEN [cache[t] EXCEPT !.description = agg, !.score = cur, !.streaming = "true"]
     ELSE [tweetContent |-> context, score |-> cur, description |-> agg,
           streaming |-> "true", timestamp |-> FALSE]]

\* the cache after onChunk's "Don't cache the streaming result until we have a
\* score": with a score the entry of tweet t is created, or updated in place
PartialEntry(cache, t, context, cur, agg) ==
  IF cur = NoScore THEN cache
  ELSE [x \in DOMAIN cache \cup {t} |->
          IF x # t THEN cache[x]
          ELSE IF t \in DOMAIN cache
          THEN [cache[t] EXCEPT !.description = agg, !.score = cur, !.streaming = "true"]
          ELSE [tweetContent |-> context, score |-> cur, description |-> agg,
                streaming |-> "true", timestamp |-> FALSE]]

\* the onChunk callback of the attempt with closure cl = [id, article, agg,
\* context] (tweetId, tweetArticle, aggregatedContent, tweetText) on delta:
\* [agg, el, cache, stored, since]
OnChunk(cl, delta) ==
  LET t == cl.id
      art == cl.article
      agg == Append(cl.agg, delta)
      cur == ScoreOf(agg, TRUE)
      a == el[art]
      a1 == [a EXCEPT !.status = "streaming", !.desc = agg,
                      !.score = IF cur # NoScore THEN cur ELSE @]
      cache1 == PartialEntry(tweetIDRatingCache, t, cl.context, cur, agg)
      same == [agg |-> agg, el |-> el, cache |-> tweetIDRatingCache,
               stored |-> storedRatings, since |-> sinceSave]
  IN IF art = "none" THEN same
     ELSE LET el1 == [el EXCEPT ![art] =
                        IF a.indicator THEN SetScoreIndicator(a1, "streaming") ELSE a1]
          IN IF cur = NoScore THEN [same EXCEPT !.el = el1, !.cache = cache1]
             ELSE IF SaveIsDue(sinceSave)
             THEN [agg |-> agg, el |-> el1, cache |-> cache1,
                   stored |-> SaveTweetRatings(cache1), since |-> 0]
             ELSE [agg |-> agg, el |-> el1, cache |-> cache1,
                   stored |-> storedRatings, since |-> sinceSave]

\* onChunk
StreamChunk(i, delta) ==
  LET pr == Pipe(i)
      c == OnChunk([id |-> pr.id, article |-> pr.article, agg |-> pr.agg,
                    context |-> pr.context], delta)
  IN
  /\ i \in Ids
  /\ pr.pc = "inflight"
  /\ enableStreaming
  /\ IsStreamPrefix(c.agg)
  /\ pipelines' = [pipelines EXCEPT ![i] = [pr EXCEPT !.agg = c.agg]]
  /\ el' = c.el
  /\ tweetIDRatingCache' = c.cache
  /\ storedRatings' = c.stored
  /\ sinceSave' = c.since
  /\ UNCHANGED <<config, late, blacklistedHandles, inDom, processedTweets, sinceCall,
                 pendingRequests>>

\* faulty variant: onComplete resolves the promise without finalizing the entry
OnCompleteNotFinalized(i) ==
  Settle(i, [error |-> FALSE, thrown |-> FALSE, content |-> Pipe(i).agg],
         el, tweetIDRatingCache, storedRatings, pendingRequests - 1)

\* the onComplete callback of the attempt pipeline i has in flight, then the
\* retry loop's handling of the resolved promise: the state after the macrotask
OnComplete(i) ==
  LET pr == Pipe(i)
      t == pr.id
      art == pr.article
      score == ScoreOf(pr.agg, TRUE)
      final == art # "none" /\ score # NoScore
      cache1 == IF final
                THEN [x \in DOMAIN tweetIDRatingCache \cup {t} |->
                        IF x = t
                        THEN [tweetContent |-> pr.context, score |-> score,
                              description |-> pr.agg, streaming |-> "false",
                              timestamp |-> TRUE]
                        ELSE tweetIDRatingCache[x]]
                ELSE tweetIDRatingCache
      el1 == IF final
             THEN [el EXCEPT ![art] = SetScoreIndicator(
                     [@ EXCEPT !.status = "rated", !.desc = pr.agg, !.score = score],
                     "rated")]
             ELSE el
      stored1 == IF final THEN SaveTweetRatings(cache1) ELSE storedRatings
  IN Settle(i, [error |-> FALSE, thrown |-> FALSE, content |-> pr.agg],
            el1, cache1, stored1, pendingRequests - 1)

\* onComplete after the sentinel, the close of the stream or three empty chunks
StreamComplete(i) ==
  LET pr == Pipe(i)
      n == OnComplete(i)
  IN
  /\ i \in Ids
  /\ pr.pc = "inflight"
  /\ enableStreaming
  /\ pipelines' = n.pl
  /\ el' = n.el
  /\ tweetIDRatingCache' = n.cache
  /\ storedRatings' = n.stored
  /\ processedTweets' = n.pt
  /\ sinceCall' = n.sc
  /\ pendingRequests' = n.pend
  /\ UNCHANGED <<config, late, blacklistedHandles, inDom, sinceSave>>

\* faulty variant: the timer is started by the first chunk only
InactivityTimerAfterFirstChunk(received) == received > 0

\* resetStreamTimeout() runs before the first read and again after every chunk:
\* the timer is pending whatever the number of chunks received so far
InactivityTimerRuns(received) == received >= 0

\* onComplete from the inactivity timer (timedOut), 10 s after the last chunk:
\* every other pending timer has become due in the meantime.  The pending
\* reader.read() is not cancelled: when the service has more to send, the
\* stream stays open with the closure of this attempt.
StreamTimeout(i) ==
  LET pr == Pipe(i)
      n == OnComplete(i)
  IN
  /\ i \in Ids
  /\ pr.pc = "inflight"
  /\ enableStreaming
  /\ InactivityTimerRuns(Len(pr.agg))
  /\ pipelines' = [j \in Ids |->
                     IF j # i /\ n.pl[j].pc \in TimedPcs
                     THEN [n.pl[j] EXCEPT !.due = TRUE] ELSE n.pl[j]]
  /\ el' = n.el
  /\ tweetIDRatingCache' = n.cache
  /\ storedRatings' = n.stored
  /\ processedTweets' = n.pt
  /\ sinceCall' = API_CALL_DELAY_MS
  /\ sinceSave' = SaveCap
  /\ pendingRequests' = n.pend
  /\ late' = IF \E delta \in Deltas : IsStreamPrefix(Append(pr.agg, delta))
             THEN [live |-> TRUE, id |-> pr.id, article |-> pr.article,
                   agg |-> pr.agg, context |-> pr.context]
             ELSE late
  /\ UNCHANGED <<config, blacklistedHandles, inDom>>

\* the read that was pending when the inactivity timer fired delivers its
\* chunk: the loop body runs once more and hands the delta to onChunk
LateChunk(delta) ==
  LET c == OnChunk(late, delta) IN
  /\ late.live
  /\ IsStreamPrefix(c.agg)
  /\ late' = NoLate
  /\ el' = c.el
  /\ tweetIDRatingCache' = c.cache
  /\ storedRatings' = c.stored
  /\ sinceSave' = c.since
  /\ UNCHANGED <<config, blacklistedHandles, inDom, processedTweets, pipelines,
                 sinceCall, pendingRequests>>

\* onError (connection error, request timeout, stream processing error): the
\* promise is rejected and the retry loop's catch block runs
StreamError(i) ==
  LET pr == Pipe(i)
      art == pr.article
      el1 == IF art # "none"
             THEN [el EXCEPT ![art] = SetScoreIndicator(
                     [@ EXCEPT !.status = "error", !.desc = MsgTransport,
                               !.score = FallbackScore], "error")]
             ELSE el
      n == Settle(i, [error |-> TRUE, thrown |-> TRUE, content |-> MsgTransport],
                  el1, tweetIDRatingCache, storedRatings, pendingRequests - 1)
  IN
  /\ i \in Ids
  /\ pr.pc = "inflight"
  /\ enableStreaming
  /\ pipelines' = n.pl
  /\ el' = n.el
  /\ tweetIDRatingCache' = n.cache
  /\ storedRatings' = n.stored
  /\ processedTweets' = n.pt
  /\ sinceCall' = n.sc
  /\ pendingRequests' = n.pend
  /\ UNCHANGED <<config, late, blacklistedHandles, inDom, sinceSave>>

\* ------------------------------------------------------------------- time
\* Time passes, long enough for every pending setTimeout to become due and for
\* the rate limiter's interval and the save debounce to expire.  A pipeline's
\* timer field is the delay its pending setTimeout was given; the order in
\* which due callbacks run is left open.
TimePasses ==
  /\ \/ sinceCall < API_CALL_DELAY_MS
     \/ sinceSave < SaveCap
     \/ \E i \in Ids : Pipe(i).pc \in TimedPcs /\ ~Pipe(i).due
  /\ sinceCall' = API_CALL_DELAY_MS
  /\ sinceSave' = SaveCap
  /\ pipelines' = [i \in Ids |->
                     IF Pipe(i).pc \in TimedPcs THEN [Pipe(i) EXCEPT !.due = TRUE]
                     ELSE Pipe(i)]
  /\ UNCHANGED <<config, late, blacklistedHandles, inDom, el, processedTweets,
                 tweetIDRatingCache, storedRatings, pendingRequests>>

\* ------------------------------------------------------------------- start
\* a rating a previous session has persisted
StoredEntry ==
  [tweetContent |-> ContextOf("t2"), score |-> 7, description |-> TxtScore7,
   streaming |-> "absent", timestamp |-> FALSE]
InitCaches == {<<>>, [t \in {"t2"} |-> StoredEntry]}

\* initializeObserver with an API key: the cache is loaded from the store, the
\* visible articles are scheduled, then ensureAllTweetsRated runs
Boot(dom, list, cache) ==
  EnsureAllTweetsRated(
    ForEachSchedule([el |-> [e \in Elems |-> FreshElem], pt |-> {}, pl |-> <<>>],
                    1, dom, list, cache),
    1, dom, list, cache)

\* the state initializeObserver leaves
Started(dom, list, cache) ==
  IF apiKey THEN Boot(dom, list, cache)
  ELSE [el |-> [e \in Elems |-> FreshElem], pt |-> {}, pl |-> <<>>]

\* the conversation elements the site creates, in this order
Conversations == {"c1", "c2"}

\* a conversation element as the site creates it: dataset.threadHist and the
\* canary of its first child are undefined
NoDataset == [set |-> FALSE, threadHist |-> <<>>, canary |-> "undefined"]

\* the page after the script has loaded; the ratings stored by an earlier
\* visit are ratings of tweets of this page
Loaded ==
  /\ tweetOf \in {[e \in Elems |-> "t1"],
                  [e \in Elems |-> IF e = "e1" THEN "t1" ELSE "t2"]}
  /\ build \in {"bundle", "module"}
  /\ enableStreaming \in IF build = "module" THEN BOOLEAN ELSE {FALSE}
  /\ apiKey \in BOOLEAN
  /\ blacklistedHandles \in SUBSET ListEntries
  /\ inDom \in {d \in SUBSET Elems :
                  \A a, b \in d : tweetOf[a] = tweetOf[b] => a = b}
  /\ tweetIDRatingCache \in {c \in InitCaches : DOMAIN c \subseteq {tweetOf[e] : e \in Elems}}
  /\ storedRatings = SaveTweetRatings(tweetIDRatingCache)
  /\ Len(Started(inDom, blacklistedHandles, tweetIDRatingCache).pl) <= PipelineCap
  /\ el = Started(inDom, blacklistedHandles, tweetIDRatingCache).el
  /\ processedTweets = Started(inDom, blacklistedHandles, tweetIDRatingCache).pt
  /\ pipelines = Started(inDom, blacklistedHandles, tweetIDRatingCache).pl
  /\ sinceCall = API_CALL_DELAY_MS
  /\ sinceSave = SaveCap
  /\ pendingRequests = 0
  /\ late = NoLate
  /\ dataset = [c \in Conversations |-> NoDataset]
  /\ threadHist = <<>>
  /\ shown = "none"
  /\ handlers = <<>>

\* no function is examined in isolation
NoCall == [fn |-> "none", arg |-> <<>>, done |-> FALSE, ret |-> <<>>]

Init == Loaded /\ call = NoCall

Next ==
  \/ \E e \in Elems : Schedule(e)
  \/ \E e \in Elems : Render(e)
  \/ ClearTweetRatingsAndRefreshUI
  \/ \E h \in ListEntries : AddHandle(h)
  \/ \E h \in ListEntries : RemoveHandle(h)
  \/ \E i \in 1..MaxPipelines : DelayedStart(i)
  \/ \E i \in 1..MaxPipelines, ok \in BOOLEAN : ContextDone(i, ok)
  \/ \E i \in 1..MaxPipelines : RateWaitDone(i)
  \/ \E i \in 1..MaxPipelines : BackoffDone(i)
  \/ \E i \in 1..MaxPipelines, resp \in Responses : Response(i, resp)
  \/ \E i \in 1..MaxPipelines, delta \in Deltas : StreamChunk(i, delta)
  \/ \E i \in 1..MaxPipelines : StreamComplete(i)
  \/ \E i \in 1..MaxPipelines : StreamTimeout(i)
  \/ \E delta \in Deltas : LateChunk(delta)
  \/ \E i \in 1..MaxPipelines : StreamError(i)
  \/ TimePasses

Spec == Init /\ [][Next]_vars

\* the page left alone by the user: the allow-list is not edited and the
\* ratings are not cleared
NextRun ==
  \/ \E e \in Elems : Schedule(e)
  \/ \E e \in Elems : Render(e)
  \/ \E i \in 1..MaxPipelines : DelayedStart(i)
  \/ \E i \in 1..MaxPipelines, ok \in BOOLEAN : ContextDone(i, ok)
  \/ \E i \in 1..MaxPipelines : RateWaitDone(i)
  \/ \E i \in 1..MaxPipelines : BackoffDone(i)
  \/ \E i \in 1..MaxPipelines, resp \in Responses : Response(i, resp)
  \/ \E i \in 1..MaxPipelines, delta \in Deltas : StreamChunk(i, delta)
  \/ \E i \in 1..MaxPipelines : StreamComplete(i)
  \/ \E i \in 1..MaxPipelines : StreamTimeout(i)
  \/ \E delta \in Deltas : LateChunk(delta)
  \/ \E i \in 1..MaxPipelines : StreamError(i)
  \/ TimePasses

SpecRun == Init /\ [][NextRun]_vars

\* the inactivity timer of pipeline i's stream is pending: the enabling
\* condition of StreamTimeout(i), a step that always changes pipelines[i].pc
TimerPending(i) ==
  /\ i \in Ids
  /\ Pipe(i).pc = "inflight"
  /\ enableStreaming
  /\ InactivityTimerRuns(Len(Pipe(i).agg))

\* a pending setTimeout callback runs once its delay has passed: weak fairness
\* of StreamTimeout(i), that is WF_vars(StreamTimeout(i)) with its ENABLED
\* written as TimerPending(i)
TimersFire ==
  \A i \in 1..MaxPipelines :
    []<>(~TimerPending(i)) \/ []<><<StreamTimeout(i)>>_vars

SpecLive == Init /\ [][NextRun]_vars /\ TimersFire

\* ------------------------------------------------------------ handleThreads
\* the string 'pending' in dataset.threadHist
PendingMark == <<"pending">>

\* "\n[REPLY]\n"
ReplyMark == "[REPLY]"

\* what the steps of handleThreads leave alone
outsideThreads == <<tweetOf, build, enableStreaming, apiKey, call, blacklistedHandles,
                    inDom, tweetIDRatingCache, storedRatings, sinceCall, sinceSave,
                    pendingRequests, late>>

\* getFullContext of article e: the thread history of the conversation in the
\* document is put in front unless isOriginalTweet(e)
GetFullContext(e, orig) ==
  LET own == ContextOf(tweetOf[e]) IN
  IF /\ shown # "none"
     /\ dataset[shown].set
     /\ dataset[shown].threadHist # <<>>
     /\ ~orig
  THEN dataset[shown].threadHist \o <<ReplyMark>> \o own
  ELSE own

Without(seq, k) == SubSeq(seq, 1, k - 1) \o SubSeq(seq, k + 1, Len(seq))

\* conversation.dataset.threadHist = 'pending'
MarkPending(d) == [d EXCEPT !.set = TRUE, !.threadHist = PendingMark]

\* threadHist + "\n[REPLY]\n" + context
AppendReply(hist, context) == hist \o <<ReplyMark>> \o context

\* handleThreads up to its first await or its return; e is the article its
\* querySelector finds (the first article, or the one above the inline reply
\* box), "none" when there is none
HandleThreads(e) ==
  LET d == IF shown = "none" THEN NoDataset ELSE dataset[shown]
      t == tweetOf[e]
  IN
  /\ shown # "none"
  /\ IF ~d.set
     THEN /\ threadHist' = <<>>
          /\ IF e # "none"
             THEN /\ Len(handlers) < MaxHandlers
                  /\ dataset' = [dataset EXCEPT ![shown] = MarkPending(d)]
                  /\ handlers' = Append(handlers,
                                        [conv |-> shown, kind |-> "root", elem |-> e])
             ELSE UNCHANGED <<dataset, handlers>>
     ELSE IF d.threadHist = PendingMark
     THEN UNCHANGED <<dataset, threadHist, handlers>>
     ELSE IF d.canary = "undefined"
     THEN IF e = "none"
          THEN /\ dataset' = [dataset EXCEPT ![shown].canary = "pending"]
               /\ UNCHANGED <<threadHist, handlers>>
          ELSE IF t \in DOMAIN tweetIDRatingCache
                  /\ tweetIDRatingCache[t].tweetContent # <<>>
          THEN /\ Len(threadHist) <= MaxThreadLen
               /\ threadHist' = AppendReply(threadHist,
                                            tweetIDRatingCache[t].tweetContent)
               /\ dataset' = [dataset EXCEPT ![shown].canary = "pending",
                                             ![shown].threadHist = threadHist']
               /\ UNCHANGED handlers
          ELSE /\ Len(threadHist) <= MaxThreadLen
               /\ Len(handlers) < MaxHandlers
               /\ dataset' = [dataset EXCEPT ![shown].canary = "pending"]
               /\ handlers' = Append(handlers,
                                     [conv |-> shown, kind |-> "append", elem |-> e])
               /\ UNCHANGED threadHist
     ELSE UNCHANGED <<dataset, threadHist, handlers>>
  /\ UNCHANGED <<outsideThreads, shown, el, processedTweets, pipelines>>

\* the root assembly after await getFullContext(firstArticle): the history of
\* the conversation is the context, the canary is set and the original tweet
\* is scheduled unless it is in flight; nothing follows a rejected await
RootDone(k, orig, ok) ==
  LET h == handlers[k]
      fullcxt == GetFullContext(h.elem, orig)
      s == IF tweetOf[h.elem] \in processedTweets THEN Coord
           ELSE ScheduleTweetProcessing(Coord, h.elem, blacklistedHandles,
                                        tweetIDRatingCache)
  IN
  /\ k \in DOMAIN handlers
  /\ h.kind = "root"
  /\ handlers' = Without(handlers, k)
  /\ IF ok
     THEN /\ Len(s.pl) <= PipelineCap
          /\ threadHist' = fullcxt
          /\ dataset' = [dataset EXCEPT ![h.conv] =
                           [set |-> TRUE, threadHist |-> fullcxt, canary |-> "true"]]
          /\ el' = s.el
          /\ processedTweets' = s.pt
          /\ pipelines' = s.pl
     ELSE UNCHANGED <<threadHist, dataset, el, processedTweets, pipelines>>
  /\ UNCHANGED <<outsideThreads, shown>>

\* the append after the 500 ms wait and await getFullContext(nextArticle); the
\* article above the inline reply box counts as an original tweet
AppendDone(k, ok) ==
  LET h == handlers[k]
      newContext == GetFullContext(h.elem, TRUE)
  IN
  /\ k \in DOMAIN handlers
  /\ h.kind = "append"
  /\ handlers' = Without(handlers, k)
  /\ IF ok
     THEN /\ threadHist' = AppendReply(threadHist, newContext)
          /\ dataset' = [dataset EXCEPT ![h.conv].set = TRUE,
                                        ![h.conv].threadHist = threadHist']
     ELSE UNCHANGED <<threadHist, dataset>>
  /\ UNCHANGED <<outsideThreads, shown, el, processedTweets, pipelines>>

\* the reader opens a reply of the conversation: the site replaces the first
\* child of the conversation element, and the canary with it
Dive ==
  /\ shown # "none"
  /\ dataset[shown].canary # "undefined"
  /\ dataset' = [dataset EXCEPT ![shown].canary = "undefined"]
  /\ UNCHANGED <<outsideThreads, threadHist, shown, handlers, el, processedTweets,
                 pipelines>>

\* the reader opens a conversation: the site creates its element
Navigate ==
  /\ shown \in {"none", "c1"}
  /\ shown' = IF shown = "none" THEN "c1" ELSE "c2"
  /\ UNCHANGED <<outsideThreads, dataset, threadHist, handlers, el, processedTweets,
                 pipelines>>

\* the user script on conversation pages; the articles are in the document
InitThreads ==
  /\ Init
  /\ tweetOf = [e \in Elems |-> IF e = "e1" THEN "t1" ELSE "t2"]
  /\ build = "bundle"
  /\ blacklistedHandles = {}
  /\ inDom = Elems

NextThreads ==
  \/ \E e \in Elems \cup {"none"} : HandleThreads(e)
  \/ \E k \in 1..MaxHandlers, orig \in BOOLEAN, ok \in BOOLEAN : RootDone(k, orig, ok)
  \/ \E k \in 1..MaxHandlers, ok \in BOOLEAN : AppendDone(k, ok)
  \/ Dive
  \/ Navigate

SpecThreads == InitThreads /\ [][NextThreads]_vars

\* ------------------------------------------------- functions in isolation
\* The functions of the program that depend on their arguments only, each
\* applied to arguments drawn from a bounded set, on a page where the script
\* has loaded without an API key and nothing is rendered.
ExtractSegs == {"SCORE_", "score_", "XCORE_", "7", "3", " ", "x"}
ExtractTexts == UNION {[1..n -> ExtractSegs] : n \in 0..MaxSegs}

\* getCompletionStreaming.  A raw chunk is the sequence of its lines; a line is
\* a data line with a content delta, the sentinel, a data line that is not
\* JSON, or a line without the data prefix.  A chunk of white space has no line.
DeltaLine(d) == [kind |-> "delta", text |-> d]
DoneLine == [kind |-> "done", text |-> ""]
BadLine == [kind |-> "bad", text |-> ""]
CommentLine == [kind |-> "comment", text |-> ""]
\* the two parts of a data line that the transport has cut inside its payload:
\* the first part has the data prefix and a payload that is not JSON, the
\* second part has no data prefix
HeadLine(d) == [kind |-> "head", text |-> d]
TailLine(d) == [kind |-> "tail", text |-> d]
RawChunks ==
  {<<DeltaLine("meh ")>>, <<DeltaLine("SCORE_7")>>, <<DeltaLine("")>>,
   <<DeltaLine("meh "), DeltaLine("SCORE_7")>>,
   <<DoneLine>>, <<DeltaLine("meh "), DoneLine>>, <<DoneLine, DeltaLine("meh ")>>,
   <<BadLine>>, <<BadLine, DeltaLine("meh ")>>, <<CommentLine>>, <<>>,
   <<HeadLine("SCORE_7")>>, <<TailLine("SCORE_7")>>}
\* streams of empty chunks and content chunks, long enough for three empty
\* chunks after a content chunk
MaxIdleLen == 5
IdleStreams ==
  UNION {[1..n -> {<<>>, <<DeltaLine("meh ")>>}] : n \in (MaxChunks + 1)..MaxIdleLen}
RawStreams == UNION {[1..n -> RawChunks] : n \in 0..MaxChunks} \cup IdleStreams

\* the decoder when onloadstart has run: the reader is attached, the
\* inactivity timer is armed, nothing has been read
\* (completed: the content handed to onComplete; resolved: the
\* aggregatedContent rateTweetStreaming resolves with; late: deltas handed to
\* onChunk after the stream was completed; terminal: the calls of onComplete
\* and onError in their order; xhr: the request is open or has failed)
DecoderStart ==
  [pos |-> 0, content |-> <<>>, emitted |-> <<>>, emptyChunksCount |-> 0,
   loop |-> "reading", streamComplete |-> FALSE, outcome |-> "none",
   completed |-> <<>>, resolved |-> <<>>, late |-> 0, terminal |-> <<>>,
   xhr |-> "open"]

\* finalized entries: texts with characters JSON escapes, written by a
\* streaming completion (streaming false and a timestamp) or by the bundled
\* script (neither property)
MaxRoundLen == 2
RoundSegs == {"x", "\"", "\\", "\n"}
RoundTexts(n) == UNION {[1..k -> RoundSegs] : k \in 0..n}
RoundEntries ==
  {[tweetContent |-> c, score |-> s, description |-> d,
    streaming |-> f.streaming, timestamp |-> f.timestamp] :
     c \in RoundTexts(MaxRoundLen), d \in RoundTexts(MaxRoundLen - 1), s \in {7, 10},
     f \in {[streaming |-> "false", timestamp |-> TRUE],
            [streaming |-> "absent", timestamp |-> FALSE]}}
RoundCaches ==
  {<<>>}
    \cup {[t \in {"t1"} |-> e] : e \in RoundEntries}
    \cup {[t \in Tweets |-> IF t = "t1" THEN e ELSE f] :
            e \in RoundEntries,
            f \in {StoredEntry,
                   [StoredEntry EXCEPT !.streaming = "false", !.timestamp = TRUE]}}

\* what the transport can deliver to the handlers of getCompletion
TransportOutcomes ==
  Responses \cup {[kind |-> k, content |-> <<>>] : k \in {"nocontent", "nochoices"}}

Calls ==
  {[fn |-> f, arg |-> t, done |-> FALSE, ret |-> <<>>] :
     f \in {"extract", "extractMain"}, t \in ExtractTexts}
    \cup {[fn |-> "decode", arg |-> r, done |-> FALSE, ret |-> DecoderStart] :
            r \in RawStreams}
    \cup {[fn |-> "roundtrip", arg |-> c, done |-> FALSE, ret |-> <<>>] :
            c \in RoundCaches}
    \cup {[fn |-> "getCompletion", arg |-> r, done |-> FALSE, ret |-> <<>>] :
            r \in TransportOutcomes}

InitUnit ==
  /\ Loaded
  /\ tweetOf = [e \in Elems |-> "t1"]
  /\ build = "module"
  /\ ~enableStreaming
  /\ ~apiKey
  /\ blacklistedHandles = {}
  /\ inDom = {}
  /\ tweetIDRatingCache = <<>>
  /\ call \in Calls

\* aggregatedContent.match(/SCORE_(\d+)/), parsed
Extract ==
  /\ call.fn = "extract"
  /\ ~call.done
  /\ call' = [call EXCEPT !.done = TRUE, !.ret = ScoreOf(call.arg, TRUE)]
  /\ UNCHANGED program

\* content.match(/\SCORE_(\d+)/) of the main script, parsed
ExtractMain ==
  /\ call.fn = "extractMain"
  /\ ~call.done
  /\ call' = [call EXCEPT !.done = TRUE, !.ret = ScoreOf(call.arg, FALSE)]
  /\ UNCHANGED program

\* faulty variant: a data line that is not JSON ends the for loop
RECURSIVE DecodeLinesUntilBad(_, _, _)
DecodeLinesUntilBad(d, lines, k) ==
  IF k > Len(lines) \/ lines[k].kind = "bad"
  THEN [content |-> d.content, emitted |-> d.emitted, isDone |-> FALSE]
  ELSE IF lines[k].kind = "done"
  THEN [content |-> d.content, emitted |-> d.emitted, isDone |-> TRUE]
  ELSE IF lines[k].kind = "delta"
  THEN DecodeLinesUntilBad([d EXCEPT !.content = @ \o Chars(lines[k].text),
                                     !.emitted = Append(@, lines[k].text)],
                           lines, k + 1)
  ELSE DecodeLinesUntilBad(d, lines, k + 1)

\* faulty variant: the sentinel sets isDone and the for loop goes on
RECURSIVE DecodeLinesNoBreak(_, _, _)
DecodeLinesNoBreak(d, lines, k) ==
  IF k > Len(lines)
  THEN [content |-> d.content, emitted |-> d.emitted,
        isDone |-> \E j \in 1..Len(lines) : lines[j].kind = "done"]
  ELSE IF lines[k].kind = "delta"
  THEN DecodeLinesNoBreak([d EXCEPT !.content = @ \o Chars(lines[k].text),
                                    !.emitted = Append(@, lines[k].text)],
                          lines, k + 1)
  ELSE DecodeLinesNoBreak(d, lines, k + 1)

\* the for loop over the lines of one chunk, from line k on: [content,
\* emitted, isDone]
RECURSIVE DecodeLines(_, _, _)
DecodeLines(d, lines, k) ==
  IF k > Len(lines) THEN [content |-> d.content, emitted |-> d.emitted, isDone |-> FALSE]
  ELSE IF lines[k].kind = "done"
  THEN [content |-> d.content, emitted |-> d.emitted, isDone |-> TRUE]
  ELSE IF lines[k].kind = "delta"
  THEN DecodeLines([d EXCEPT !.content = @ \o Chars(lines[k].text),
                             !.emitted = Append(@, lines[k].text)],
                   lines, k + 1)
  ELSE DecodeLines(d, lines, k + 1)

\* faulty variant: a chunk with content leaves the count as it is
EmptyChunksNotReset(count, blank) == IF blank THEN count + 1 ELSE count

\* emptyChunksCount after a chunk: one more for a chunk of white space, zero
\* for any other chunk
EmptyChunks(count, blank) == IF blank THEN count + 1 ELSE 0

\* the decoder after the body of its while loop has run on one chunk and the
\* loop test has been made again; onComplete is called when the loop is left
\* and the stream has not been completed before
DecodeChunk(d, chunk) ==
  LET blank == chunk = <<>>
      empties == EmptyChunks(d.emptyChunksCount, blank)
      r == IF blank
           THEN [content |-> d.content, emitted |-> d.emitted, isDone |-> empties >= 3]
           ELSE DecodeLines(d, chunk, 1)
      d1 == [d EXCEPT !.pos = @ + 1, !.content = r.content, !.emitted = r.emitted,
                      !.emptyChunksCount = empties,
                      !.late = IF d.streamComplete
                               THEN @ + Len(r.emitted) - Len(d.emitted) ELSE @]
  IN IF ~r.isDone /\ ~d.streamComplete THEN d1
     ELSE IF d.streamComplete THEN [d1 EXCEPT !.loop = "exited"]
     ELSE [d1 EXCEPT !.loop = "exited", !.streamComplete = TRUE,
                     !.outcome = "complete", !.completed = r.content,
                     !.resolved = Flatten(r.emitted),
                     !.terminal = Append(@, "onComplete")]

\* reader.read() delivers the next chunk
DecodeRead ==
  /\ call.fn = "decode"
  /\ call.ret.loop = "reading"
  /\ call.ret.pos < Len(call.arg)
  /\ call' = [call EXCEPT !.ret = DecodeChunk(call.ret, call.arg[call.ret.pos + 1]),
                          !.done = DecodeChunk(call.ret, call.arg[call.ret.pos + 1]).outcome
                                     # "none"]
  /\ UNCHANGED program

\* reader.read() reports the end of the stream
DecodeClose ==
  /\ call.fn = "decode"
  /\ call.ret.loop = "reading"
  /\ call.ret.pos = Len(call.arg)
  /\ call' = [call EXCEPT !.done = TRUE,
                          !.ret = IF call.ret.streamComplete
                                  THEN [@ EXCEPT !.loop = "exited"]
                                  ELSE [@ EXCEPT !.loop = "exited",
                                                 !.streamComplete = TRUE,
                                                 !.outcome = "complete",
                                                 !.completed = call.ret.content,
                                                 !.resolved = Flatten(call.ret.emitted),
                                                 !.terminal = Append(@, "onComplete")]]
  /\ UNCHANGED program

\* the inactivity timer fires
DecodeTimeout ==
  /\ call.fn = "decode"
  /\ ~call.ret.streamComplete
  /\ call' = [call EXCEPT !.done = TRUE,
                          !.ret = [@ EXCEPT !.streamComplete = TRUE,
                                            !.outcome = "timeout",
                                            !.completed = call.ret.content,
                                            !.resolved = Flatten(call.ret.emitted),
                                            !.terminal = Append(@, "onComplete")]]
  /\ UNCHANGED program

\* reader.read() throws: the catch block of processStream
DecodeReadError ==
  /\ call.fn = "decode"
  /\ call.ret.loop = "reading"
  /\ call' = [call EXCEPT !.done = TRUE,
                          !.ret = IF call.ret.streamComplete
                                  THEN [@ EXCEPT !.loop = "exited"]
                                  ELSE [@ EXCEPT !.loop = "exited",
                                                 !.streamComplete = TRUE,
                                                 !.outcome = "error",
                                                 !.terminal = Append(@, "onError")]]
  /\ UNCHANGED program

\* the request fails while the read loop waits for a chunk: onerror or
\* ontimeout of the request calls onError
DecodeRequestFails ==
  /\ call.fn = "decode"
  /\ call.ret.loop = "reading"
  /\ call.ret.xhr = "open"
  /\ call' = [call EXCEPT !.ret = [@ EXCEPT !.xhr = "failed",
                                            !.terminal = Append(@, "onError")]]
  /\ UNCHANGED program

\* getCompletion: the transport calls one handler; rejected: the promise was
\* rejected (the executor has no reject and every throw of onload is caught)
GetCompletionCall ==
  /\ call.fn = "getCompletion"
  /\ ~call.done
  /\ call' = [call EXCEPT !.done = TRUE,
                          !.ret = [resolved |-> ResolveCalls(call.arg),
                                   value |-> GetCompletion(call.arg),
                                   rejected |-> FALSE]]
  /\ UNCHANGED program

\* the cache is saved, the page reloaded and the stored value loaded
RoundTrip ==
  /\ call.fn = "roundtrip"
  /\ ~call.done
  /\ call' = [call EXCEPT !.done = TRUE,
                          !.ret = LoadRatings(SaveTweetRatings(call.arg))]
  /\ UNCHANGED program

NextUnit ==
  \/ Extract
  \/ ExtractMain
  \/ RoundTrip
  \/ GetCompletionCall
  \/ DecodeRead
  \/ DecodeClose
  \/ DecodeTimeout
  \/ DecodeReadError
  \/ DecodeRequestFails

SpecUnit == InitUnit /\ [][NextUnit]_vars
\* ----------------------------------------------------------------- claims
\* the author of the tweet article e shows is on the allow-list
AllowListed(e) == IsUserBlacklisted(HandleOf[tweetOf[e]], blacklistedHandles)

\* pipeline i has not returned
Active(i) == Pipe(i).pc # "done"

\* C1: a scheduleTweetProcessing call for a tweet (author not allow-listed, no
\* cache entry) that already has a pipeline which has not completed starts no
\* second pipeline, so the tweet is dispatched once; and a call that starts a
\* pipeline adds the in-flight marker in the same step, with the new pipeline
\* still in front of its processing delay.
C1_DoubleScheduleOnePipeline ==
  [][\A e \in Elems :
       (/\ Schedule(e)
        /\ ~AllowListed(e)
        /\ tweetOf[e] \notin DOMAIN tweetIDRatingCache)
       => /\ (\E i \in Ids : Pipe(i).id = tweetOf[e] /\ Active(i))
               => pipelines' = pipelines
          /\ pipelines' # pipelines
               => /\ tweetOf[e] \in processedTweets'
                  /\ pipelines'[Len(pipelines')].pc = "delay"]_vars

\* C2: in every reachable state at most one rating pipeline is active for any
\* tweet ID.
C2_OneActivePipelinePerTweet ==
  \A i, j \in Ids :
    (Active(i) /\ Active(j) /\ Pipe(i).id = Pipe(j).id) => i = j

\* C3: scheduleTweetProcessing for an article of an allow-listed author starts no
\* pipeline, dispatches nothing, and leaves the article with score 10 and
\* status blacklisted.
C3_AllowListedFastPath ==
  [][\A e \in Elems :
       (Schedule(e) /\ AllowListed(e))
       => /\ pipelines' = pipelines
          /\ pendingRequests' = pendingRequests
          /\ el'[e].score = 10
          /\ el'[e].status = "blacklisted"]_vars

C5_AttemptBudget ==
  [][/\ \A i \in 1..Len(pipelines') : pipelines'[i].dispatches <= MAX_RETRIES
     /\ \A i \in Ids :
          /\ \A resp \in Responses :
               (/\ Response(i, resp)
                /\ resp.kind = "ok"
                /\ ScoreOf(resp.content, TRUE) # NoScore)
               => /\ pipelines'[i].pc = "done"
                  /\ pipelines'[i].result =
                       [score |-> ScoreOf(resp.content, TRUE),
                        content |-> resp.content, error |-> FALSE]
                  /\ pipelines'[i].dispatches = Pipe(i).dispatches
                  /\ pipelines'[i].sleeps = Pipe(i).sleeps
                  /\ pendingRequests' = pendingRequests - 1
          /\ (StreamComplete(i) /\ ScoreOf(Pipe(i).agg, TRUE) # NoScore)
               => /\ pipelines'[i].pc = "done"
                  /\ pipelines'[i].result =
                       [score |-> ScoreOf(Pipe(i).agg, TRUE),
                        content |-> Pipe(i).agg, error |-> FALSE]
                  /\ pipelines'[i].dispatches = Pipe(i).dispatches
                  /\ pipelines'[i].sleeps = Pipe(i).sleeps
                  /\ pendingRequests' = pendingRequests - 1]_vars

\* C5 happens: a run has succeeded on its last attempt.
C5_Witness ==
  \E i \in Ids :
    /\ Pipe(i).outcome = "rated"
    /\ Pipe(i).dispatches = MAX_RETRIES
    /\ ~Pipe(i).result.error

\* C6: when the last of the maxRetries attempts ends without a score token, the
\* run returns score 5 with error = true and the article's status becomes error.
C6_Exhaustion ==
  [][\A i \in Ids :
       (/\ Pipe(i).attempt = MAX_RETRIES
        /\ \/ \E resp \in Responses :
                /\ Response(i, resp)
                /\ resp.kind # "ok" \/ ScoreOf(resp.content, TRUE) = NoScore
           \/ StreamComplete(i) /\ ScoreOf(Pipe(i).agg, TRUE) = NoScore
           \/ StreamError(i))
       => /\ pipelines'[i].pc = "done"
          /\ pipelines'[i].result.score = 5
          /\ pipelines'[i].result.error
          /\ el'[Pipe(i).elem].status = "error"]_vars

\* C6 happens: a run has used up its attempts.
C6_Witness ==
  \E i \in Ids :
    /\ Pipe(i).outcome = "exhausted"
    /\ Pipe(i).dispatches = MAX_RETRIES
    /\ Pipe(i).result.score = 5
    /\ el[Pipe(i).elem].status = "error"

\* C7: when the run of a pipeline is exhausted the article ends in status error
\* with score 5 and the in-flight marker is cleared; and a later
\* scheduleTweetProcessing call for a tweet whose pipelines have all ended that
\* way starts a new pipeline, which begins at attempt 1.
C7_RetryAfterExhaustion ==
  [][/\ \A i \in Ids :
          (Active(i) /\ pipelines'[i].outcome = "exhausted")
          => /\ el'[Pipe(i).elem].status = "error"
             /\ el'[Pipe(i).elem].score = 5
             /\ Pipe(i).id \notin processedTweets'
     /\ \A e \in Elems :
          (/\ Schedule(e)
           /\ ~AllowListed(e)
           /\ \E i \in Ids : Pipe(i).id = tweetOf[e]
           /\ \A i \in Ids : Pipe(i).id = tweetOf[e] => Pipe(i).outcome = "exhausted")
          => /\ Len(pipelines') = Len(pipelines) + 1
             /\ pipelines'[Len(pipelines')].id = tweetOf[e]
             /\ pipelines'[Len(pipelines')].attempt = 0
             /\ pipelines'[Len(pipelines')].dispatches = 0]_vars

\* C8: when a pipeline returns without a rating (no API key, context failure,
\* retry exhaustion) its tweet is not in the in-flight set; a pipeline that
\* returns with a rating leaves the set as it is.
C8_MarkerCleared ==
  [][\A i \in Ids :
       (Active(i) /\ pipelines'[i].pc = "done")
       => /\ pipelines'[i].outcome \in {"nokey", "ctxfail", "exhausted"}
               => Pipe(i).id \notin processedTweets'
          /\ pipelines'[i].outcome = "rated"
               => processedTweets' = processedTweets]_vars

\* C8 happens: each of the failures has ended a pipeline while another pipeline
\* has left its tweet marked.
C8_Witness ==
  /\ \E i \in Ids :
       /\ Pipe(i).outcome \in {"ctxfail", "exhausted"}
       /\ Pipe(i).id \notin processedTweets
  /\ \E j \in Ids :
       /\ Pipe(j).outcome = "rated"
       /\ Pipe(j).id \in processedTweets

\* C9: after failed attempt n < maxRetries the run sleeps n*n*1000 ms, whether
\* the attempt returned no score or threw; after the last failed attempt it
\* returns without sleeping; the sleeps of a run are 1000, 4000, ...
C9_Backoff ==
  [][/\ \A i \in 1..Len(pipelines') :
          /\ Len(pipelines'[i].sleeps) <= MAX_RETRIES - 1
          /\ \A n \in 1..Len(pipelines'[i].sleeps) :
               pipelines'[i].sleeps[n] = n * n * 1000
     /\ \A i \in Ids :
          (/\ Pipe(i).pc = "inflight"
           /\ pipelines'[i].pc # "inflight"
           /\ pipelines'[i].outcome # "rated")
          => IF Pipe(i).attempt < MAX_RETRIES
             THEN /\ pipelines'[i].pc = "backoff"
                  /\ pipelines'[i].timer = Pipe(i).attempt * Pipe(i).attempt * 1000
                  /\ pipelines'[i].sleeps = Append(Pipe(i).sleeps, pipelines'[i].timer)
             ELSE /\ pipelines'[i].pc = "done"
                  /\ pipelines'[i].sleeps = Pipe(i).sleeps
     /\ \A i \in Ids :
          BackoffDone(i) => pipelines'[i].attempt = Pipe(i).attempt + 1]_vars

\* C9 happens: a run has slept 1000 ms and 4000 ms and has returned after its
\* last failed attempt.
C9_Witness ==
  \E i \in Ids :
    /\ Pipe(i).outcome = "exhausted"
    /\ Pipe(i).sleeps = <<1000, 4000>>

\* C10: a transport failure (connection error, timeout, non-2xx status, stream
\* error) leaves the run at the same attempt; while attempts remain the run
\* sleeps the backoff of that attempt and then makes the next attempt; only the
\* failure of the last attempt ends the run.
C10_TransportFailureRetries ==
  [][\A i \in Ids :
       /\ (\/ \E resp \in Responses :
                Response(i, resp) /\ resp.kind \in {"status500", "neterror", "timeout"}
           \/ StreamError(i))
          => /\ pipelines'[i].attempt = Pipe(i).attempt
             /\ pipelines'[i].dispatches = Pipe(i).dispatches
             /\ IF Pipe(i).attempt < MAX_RETRIES
                THEN /\ pipelines'[i].pc = "backoff"
                     /\ pipelines'[i].timer = Pipe(i).attempt * Pipe(i).attempt * 1000
                ELSE /\ pipelines'[i].pc = "done"
                     /\ pipelines'[i].outcome = "exhausted"
       /\ BackoffDone(i)
          => /\ pipelines'[i].attempt = Pipe(i).attempt + 1
             /\ pipelines'[i].pc \in {"ratewait", "inflight"}]_vars

\* C10 happens: a streamed attempt has failed in transport and the run is in
\* its backoff sleep.
C10_Witness ==
  \E i \in Ids :
    /\ Pipe(i).pc = "backoff"
    /\ el[Pipe(i).elem].status = "error"
    /\ el[Pipe(i).elem].desc = MsgTransport

\* C11: every dispatch of a rating attempt is made when at least
\* API_CALL_DELAY_MS have passed since the time the rate limiter has recorded,
\* and the dispatch records its own time (the time the attempt was released) as
\* the new lastAPICallTime, so that any two dispatches, of whatever pipelines,
\* are at least API_CALL_DELAY_MS apart.
C11_DispatchSpacing ==
  [][\A i \in Ids :
       pipelines'[i].dispatches = Pipe(i).dispatches + 1
       => /\ sinceCall >= API_CALL_DELAY_MS
          /\ sinceCall' = 0]_vars

\* the characters of the text under examination
CallText == Flatten(call.arg)

DecimalDigits == {"0", "1", "2", "3", "4", "5", "6", "7", "8", "9"}

\* positions of text c where the characters SCORE_ and a digit stand
TokensOf(c) ==
  {i \in 1..Len(c) :
     /\ i + 6 <= Len(c)
     /\ SubSeq(c, i, i + 5) = <<"S", "C", "O", "R", "E", "_">>
     /\ c[i + 6] \in DecimalDigits}

\* C12 as stated: for a text that contains SCORE_7 anywhere the extractor
\* returns 7, and for a text without a SCORE_<digits> token it returns no score.
C12_Score7Anywhere ==
  (call.fn = "extract" /\ call.done)
  => /\ (\E i \in TokensOf(CallText) : CallText[i + 6] = "7") => call.ret = 7
     /\ TokensOf(CallText) = {} => call.ret = NoScore

\* C12, amended: for a text whose first SCORE_<digits> token is SCORE_7 (the 7
\* not followed by another digit) the extractor returns 7, and for a text
\* without a SCORE_<digits> token it returns no score.
C12_FirstTokenWins ==
  (call.fn = "extract" /\ call.done)
  => /\ \A i \in TokensOf(CallText) :
          (/\ \A j \in TokensOf(CallText) : i <= j
           /\ CallText[i + 6] = "7"
           /\ i + 7 <= Len(CallText) => CallText[i + 7] \notin DecimalDigits)
          => call.ret = 7
     /\ TokensOf(CallText) = {} => call.ret = NoScore

\* C12 happens: the extractor has returned 7 for a text with a second token
\* after SCORE_7, and no score for a text that has "score_7" in lower case.
C12_Witness ==
  /\ call.fn = "extract"
  /\ call.done
  /\ \/ call.arg = <<"SCORE_", "7", "SCORE_", "3">> /\ call.ret = 7
     \/ call.arg = <<"x", "score_", "7">> /\ call.ret = NoScore

\* the raw stream is a sequence of chunks of content frames that ends with the
\* sentinel
WellFormedStream(r) ==
  /\ r # <<>>
  /\ \A k \in 1..Len(r) :
       /\ r[k] # <<>>
       /\ \A n \in 1..Len(r[k]) :
            IF k = Len(r) /\ n = Len(r[k]) THEN r[k][n].kind = "done"
            ELSE r[k][n].kind = "delta"

\* C13: for a stream of well-formed frames that ends with the sentinel, the
\* content getCompletionStreaming hands to onComplete and the aggregatedContent
\* rateTweetStreaming resolves with are the concatenation, in arrival order, of
\* all the deltas handed to onChunk.
C13_AggregateIsConcatenation ==
  (/\ call.fn = "decode"
   /\ WellFormedStream(call.arg)
   /\ call.ret.outcome \in {"complete", "timeout"})
  => /\ call.ret.completed = Flatten(call.ret.emitted)
     /\ call.ret.resolved = Flatten(call.ret.emitted)
\* C14: when attempt k of a run (k <= maxRetries, the earlier attempts having
\* ended without a score) returns content with a score token SCORE_s, the run
\* returns {score s, error false} after exactly k dispatches, the article's
\* status is rated and the cache holds a non-streaming entry with score s.
C14_SuccessAfterRetries ==
  [][\A i \in Ids :
       (/\ Pipe(i).pc = "inflight"
        /\ pipelines'[i].pc = "done"
        /\ pipelines'[i].outcome = "rated")
       => LET q == pipelines'[i]
              s == ScoreOf(q.result.content, TRUE)
          IN /\ s # NoScore
             /\ q.result.score = s
             /\ ~q.result.error
             /\ Pipe(i).attempt <= MAX_RETRIES
             /\ q.dispatches = Pipe(i).attempt
             /\ el'[q.elem].status = "rated"
             /\ q.id \in DOMAIN tweetIDRatingCache'
             /\ tweetIDRatingCache'[q.id].score = s
             /\ tweetIDRatingCache'[q.id].streaming # "true"]_vars

\* C14 happens: a run has succeeded on its third attempt after two attempts
\* without a score, and its rating is in the cache.
C14_Witness ==
  \E i \in Ids :
    /\ Pipe(i).outcome = "rated"
    /\ Pipe(i).dispatches = 3
    /\ Len(Pipe(i).sleeps) = 2
    /\ el[Pipe(i).elem].status = "rated"
    /\ Pipe(i).id \in DOMAIN tweetIDRatingCache
    /\ tweetIDRatingCache[Pipe(i).id].score = Pipe(i).result.score

C16_ConcludedIsTerminal ==
  [][\A i \in Ids :
       (Pipe(i).pc # "done" /\ pipelines'[i].pc = "done")
       => /\ el'[Pipe(i).elem].status \in {"rated", "cached", "blacklisted", "error"}
          /\ el'[Pipe(i).elem].score # NoScore]_vars

\* C17: every streaming attempt in flight eventually delivers onComplete or
\* onError to its caller, so the promise of rateTweetStreaming settles and the
\* run leaves the attempt, also when the service sends nothing more.
C17_StreamSettles ==
  \A i \in 1..MaxPipelines :
    (enableStreaming /\ i \in Ids /\ Pipe(i).pc = "inflight")
      ~> (i \in Ids /\ Pipe(i).pc # "inflight")

\* C17 happens: a stream that stalled before any score arrived was completed by
\* the timer and the run has gone on to its backoff sleep.
C17_Witness ==
  \E i \in Ids :
    /\ enableStreaming
    /\ Pipe(i).pc = "backoff"
    /\ Pipe(i).dispatches >= 1
    /\ late.live
    /\ late.id = Pipe(i).id
    /\ ScoreOf(late.agg, TRUE) = NoScore

\* C18: once the cache entry of a tweet has streaming = false, no step other
\* than the explicit clearing of the cache changes its score, description,
\* tweet content or streaming flag; no stream callback makes it a streaming
\* entry again.
C18_FinalizedImmutable ==
  [][\A t \in DOMAIN tweetIDRatingCache :
       tweetIDRatingCache[t].streaming = "false"
       => \/ /\ t \in DOMAIN tweetIDRatingCache'
             /\ tweetIDRatingCache'[t].score = tweetIDRatingCache[t].score
             /\ tweetIDRatingCache'[t].description = tweetIDRatingCache[t].description
             /\ tweetIDRatingCache'[t].tweetContent = tweetIDRatingCache[t].tweetContent
             /\ tweetIDRatingCache'[t].streaming = "false"
          \/ ClearTweetRatingsAndRefreshUI]_vars

C20_RoundTrip ==
  (call.fn = "roundtrip" /\ call.done) => call.ret = call.arg

\* C20 happens: a cache of two entries, one with a quote and a backslash in its
\* text, has been saved and loaded.
C20_Witness ==
  /\ call.fn = "roundtrip"
  /\ call.done
  /\ DOMAIN call.arg = Tweets
  /\ call.arg["t1"].tweetContent = <<"\\", "\"">>
  /\ call.arg["t1"].streaming = "false"

\* C21: for one conversation at most one assembly step of handleThreads (the
\* root assembly or the appending of a reply) is in progress at any time.
C21_OneAssemblyPerConversation ==
  \A c \in Conversations :
    Cardinality({k \in DOMAIN handlers : handlers[k].conv = c}) <= 1

\* C22: once the thread history of a conversation is ready, every later value
\* of it has the previous value as a prefix, also when steps of handleThreads
\* for different conversations interleave.
C22_HistoryOnlyGrows ==
  [][\A c \in Conversations :
       (dataset[c].set /\ dataset[c].threadHist # PendingMark)
       => /\ dataset'[c].set
          /\ Len(dataset'[c].threadHist) >= Len(dataset[c].threadHist)
          /\ SubSeq(dataset'[c].threadHist, 1, Len(dataset[c].threadHist))
               = dataset[c].threadHist]_vars

\* C23: without an API key the step that starts a pipeline ends it at once: the
\* pipeline has returned with nothing dispatched, no attempt begun and no wait
\* scheduled, the article is in the error state, the tweet is no longer marked
\* as in flight, and no request is counted or timed.
C23_NoKeyEndsAtOnce ==
  [][\A i \in 1..Len(pipelines) :
       (~apiKey /\ DelayedStart(i))
       => /\ pipelines'[i].pc = "done"
          /\ pipelines'[i].outcome = "nokey"
          /\ pipelines'[i].dispatches = 0
          /\ pipelines'[i].attempt = 0
          /\ pipelines'[i].sleeps = <<>>
          /\ pipelines'[i].timer = 0
          /\ el'[Pipe(i).elem].status = "error"
          /\ el'[Pipe(i).elem].desc = MsgNoKey
          /\ Pipe(i).id \notin processedTweets'
          /\ pendingRequests' = pendingRequests
          /\ sinceCall' = sinceCall]_vars

\* a pipeline that was started without an API key has returned
C23_Witness ==
  /\ ~apiKey
  /\ \E i \in 1..Len(pipelines) :
       /\ Pipe(i).pc = "done"
       /\ Pipe(i).outcome = "nokey"
       /\ el[Pipe(i).elem].status = "error"
       /\ Pipe(i).id \notin processedTweets

\* C24: wherever the score is extracted, by the streaming module or by the main
\* script, the result is the integer written after the leftmost exact token
\* SCORE_ that digits follow, and no score when the text has no such token
\* (XCORE_7 and score_7 are not tokens).
C24_ExactTokenEverywhere ==
  (call.fn \in {"extract", "extractMain"} /\ call.done)
  => LET text == Flatten(call.arg)
         tokens == {i \in 1..(Len(text) - 6) :
                      /\ SubSeq(text, i, i + 5) = <<"S", "C", "O", "R", "E", "_">>
                      /\ IsDigit(text[i + 6])}
     IN IF tokens = {} THEN call.ret = NoScore
        ELSE \E i \in tokens :
               /\ \A j \in tokens : i <= j
               /\ call.ret = ParseInt(text, i + 6, DigitRun(text, i + 6))

\* C25: when the stream is a sequence of well-formed content frames, cut into
\* chunks at line ends or inside the payload of a data line, and the transport
\* closes after the last chunk, the content handed to onComplete is the
\* concatenation of the deltas of all the frames.
C25_ContentWhateverThePartition ==
  LET stream == call.arg
      wellFormed ==
        \A c \in 1..Len(stream) : \A k \in 1..Len(stream[c]) :
          LET line == stream[c][k] IN
          /\ line.kind \in {"delta", "head", "tail"}
          /\ line.kind = "head"
               => /\ k = Len(stream[c])
                  /\ c < Len(stream)
                  /\ stream[c + 1] # <<>>
                  /\ stream[c + 1][1] = TailLine(line.text)
          /\ line.kind = "tail"
               => /\ k = 1
                  /\ c > 1
                  /\ stream[c - 1][Len(stream[c - 1])] = HeadLine(line.text)
      lines[c \in 0..Len(stream)] ==
        IF c = 0 THEN <<>> ELSE lines[c - 1] \o stream[c]
      all == lines[Len(stream)]
      deltas[k \in 0..Len(all)] ==
        IF k = 0 THEN <<>>
        ELSE IF all[k].kind \in {"delta", "head"} THEN deltas[k - 1] \o Chars(all[k].text)
        ELSE deltas[k - 1]
  IN (/\ call.fn = "decode"
      /\ call.done
      /\ call.ret.outcome = "complete"
      /\ call.ret.pos = Len(stream)
      /\ \A c \in 1..Len(stream) : stream[c] # <<>>
      /\ wellFormed)
     => call.ret.completed = deltas[Len(all)]

\* C26: while every line read so far is a content line or a data line whose
\* payload is not JSON, reading one more chunk of such lines hands exactly the
\* deltas of its content lines to onChunk, in order, and adds them to the
\* content; the lines that are not JSON add nothing, and the stream is neither
\* completed nor failed by the read.
C26_MalformedLineSkipped ==
  [][LET d == call.ret
         chunk == call.arg[d.pos + 1]
         texts[k \in 0..Len(chunk)] ==
           IF k = 0 THEN <<>>
           ELSE IF chunk[k].kind = "delta" THEN Append(texts[k - 1], chunk[k].text)
           ELSE texts[k - 1]
     IN (/\ DecodeRead
         /\ ~d.streamComplete
         /\ \A c \in 1..(d.pos + 1) :
              /\ call.arg[c] # <<>>
              /\ \A k \in 1..Len(call.arg[c]) : call.arg[c][k].kind \in {"delta", "bad"})
        => /\ call'.ret.emitted = d.emitted \o texts[Len(chunk)]
           /\ call'.ret.content = d.content \o Flatten(texts[Len(chunk)])
           /\ call'.ret.outcome = "none"
           /\ call'.ret.loop = "reading"
           /\ ~call'.ret.streamComplete]_vars

\* a line that is not JSON has been read, and a content line after it in the
\* same chunk and one of a later chunk have been handed to onChunk
C26_Witness ==
  /\ call.fn = "decode"
  /\ call.ret.pos = 2
  /\ call.arg[1] = <<BadLine, DeltaLine("meh ")>>
  /\ call.arg[2] = <<DeltaLine("SCORE_7")>>
  /\ call.ret.emitted = <<"meh ", "SCORE_7">>
  /\ call.ret.outcome = "none"

C28_ThreeEmptyChunks ==
  [][LET d == call.ret
         chunk == call.arg[d.pos + 1]
         run[k \in 0..(d.pos + 1)] ==
           IF k = 0 THEN 0
           ELSE IF call.arg[k] = <<>> THEN run[k - 1] + 1
           ELSE 0
     IN (/\ DecodeRead
         /\ ~d.streamComplete
         /\ \A k \in 1..Len(chunk) : chunk[k].kind # "done")
        => /\ call'.ret.outcome = (IF run[d.pos + 1] >= 3 THEN "complete" ELSE "none")
           /\ run[d.pos + 1] <= 3
           /\ call'.ret.outcome = "complete"
                => /\ call'.ret.completed = d.content
                   /\ call'.ret.emitted = d.emitted
                   /\ call'.ret.loop = "exited"]_vars

\* an empty chunk, a content chunk and three empty chunks: the fifth read has
\* completed the stream with the content of the second
C28_Witness ==
  /\ call.fn = "decode"
  /\ call.arg = <<<<>>, <<DeltaLine("meh ")>>, <<>>, <<>>, <<>>>>
  /\ call.ret.pos = 5
  /\ call.ret.outcome = "complete"
  /\ call.ret.completed = Chars("meh ")

\* C29: a delta of a streaming attempt leaves the cache as it is while the
\* accumulated text holds no score token, or when the article was not found;
\* with a score token it creates the entry of the tweet (source text of the
\* request, score, accumulated text, streaming true, no timestamp) when there
\* is none, and otherwise changes only score, description and the streaming
\* mark of the entry that exists; the entry is marked streaming afterwards and
\* no other entry changes.
C29_PartialEntryNeedsScore ==
  [][\A i \in 1..Len(pipelines) : \A delta \in Deltas :
       StreamChunk(i, delta)
       => LET t == Pipe(i).id
              agg == pipelines'[i].agg
              cur == ScoreOf(agg, TRUE)
              old == tweetIDRatingCache
              new == tweetIDRatingCache'
          IN /\ agg = Append(Pipe(i).agg, delta)
             /\ (cur = NoScore \/ Pipe(i).article = "none") => new = old
             /\ (cur # NoScore /\ Pipe(i).article # "none")
                  => /\ DOMAIN new = DOMAIN old \cup {t}
                     /\ \A x \in DOMAIN old \ {t} : new[x] = old[x]
                     /\ new[t].streaming = "true"
                     /\ new[t].score = cur
                     /\ new[t].description = agg
                     /\ IF t \in DOMAIN old
                        THEN /\ new[t].tweetContent = old[t].tweetContent
                             /\ new[t].timestamp = old[t].timestamp
                        ELSE /\ new[t].tweetContent = Pipe(i).context
                             /\ new[t].timestamp = FALSE]_vars

\* a delta without a score has left the cache empty, the delta with the score
\* has created the entry and a further delta has updated it in place
C29_Witness ==
  \E i \in 1..Len(pipelines) :
    /\ Pipe(i).pc = "inflight"
    /\ Pipe(i).agg = <<"meh ", "SCORE_7", ".">>
    /\ Pipe(i).id \in DOMAIN tweetIDRatingCache
    /\ tweetIDRatingCache[Pipe(i).id].streaming = "true"
    /\ tweetIDRatingCache[Pipe(i).id].score = 7
    /\ tweetIDRatingCache[Pipe(i).id].description = Pipe(i).agg

\* C30: the step in which a run of either mode ends with a rating leaves the
\* tweet a cache entry with streaming = false and a timestamp; and every entry
\* a step writes has no timestamp exactly when it is marked streaming.
C30_FinalEntryTimestamped ==
  [][/\ \A i \in Ids :
          (/\ Pipe(i).pc = "inflight"
           /\ pipelines'[i].pc = "done"
           /\ pipelines'[i].outcome = "rated")
          => /\ Pipe(i).id \in DOMAIN tweetIDRatingCache'
             /\ tweetIDRatingCache'[Pipe(i).id].streaming = "false"
             /\ tweetIDRatingCache'[Pipe(i).id].timestamp
     /\ \A t \in DOMAIN tweetIDRatingCache' :
          (t \notin DOMAIN tweetIDRatingCache \/ tweetIDRatingCache'[t] # tweetIDRatingCache[t])
          => (~tweetIDRatingCache'[t].timestamp
                <=> tweetIDRatingCache'[t].streaming = "true")]_vars

\* C31: no step puts an article into the cached state, with the score of the
\* entry, from a cache entry that is marked streaming: an entry of an attempt
\* that is still streaming is not applied as a rating.
C31_StreamingEntryNotApplied ==
  [][\A e \in Elems :
       (el'[e] # el[e] /\ el'[e].status = "cached")
       => ~(/\ tweetOf[e] \in DOMAIN tweetIDRatingCache
            /\ tweetIDRatingCache[tweetOf[e]].streaming = "true")]_vars

\* C32: a cache entry that is marked streaming is changed only by the attempt
\* that wrote it last, the attempt whose accumulated text is the description of
\* the entry: by a further delta of that attempt or by its completion.  A later
\* attempt and the update after the rating do not write into it.
C32_PartialEntryOwnAttemptOnly ==
  [][\A t \in DOMAIN tweetIDRatingCache :
       (/\ tweetIDRatingCache[t].streaming = "true"
        /\ (t \notin DOMAIN tweetIDRatingCache' \/ tweetIDRatingCache'[t] # tweetIDRatingCache[t]))
       => \E i \in Ids :
            /\ Pipe(i).id = t
            /\ Pipe(i).pc = "inflight"
            /\ Pipe(i).agg = tweetIDRatingCache[t].description
            /\ \/ \E delta \in Deltas : StreamChunk(i, delta)
               \/ StreamComplete(i)
               \/ StreamTimeout(i)]_vars

\* C33: a step creates a cache entry only with a description that holds a score
\* token; and the step in which a run ends after its last attempt without a
\* score leaves the tweet without an entry, in tweetIDRatingCache and in the
\* stored ratings, when it had none before.
C33_EntryNeedsExtractedScore ==
  [][/\ \A t \in DOMAIN tweetIDRatingCache' \ DOMAIN tweetIDRatingCache :
          ScoreOf(tweetIDRatingCache'[t].description, build = "module") # NoScore
     /\ \A i \in Ids :
          (/\ Pipe(i).pc # "done"
           /\ pipelines'[i].pc = "done"
           /\ pipelines'[i].outcome = "exhausted"
           /\ Pipe(i).id \notin DOMAIN tweetIDRatingCache)
          => /\ Pipe(i).id \notin DOMAIN tweetIDRatingCache'
             /\ Pipe(i).id \notin DOMAIN LoadRatings(storedRatings')]_vars

C35_OneTerminalCallback ==
  call.fn = "decode"
  => /\ Len(call.ret.terminal) <= 1
     /\ call.ret.loop = "exited" => Len(call.ret.terminal) = 1

\* C36: once the terminal callback of a streaming attempt has been invoked, a
\* chunk that the stream still delivers is not handed to the onChunk of that
\* attempt: no such step changes an article or the cache.
C36_NoChunkAfterTerminal ==
  [][\A delta \in Deltas :
       LateChunk(delta)
       => /\ el' = el
          /\ tweetIDRatingCache' = tweetIDRatingCache
          /\ storedRatings' = storedRatings]_vars

\* C37: the step in which the run of a tweet ends, with a rating or after its
\* last attempt, leaves the cache without an entry of that tweet that is marked
\* streaming.
C37_NoStreamingEntryAfterRun ==
  [][\A i \in Ids :
       (/\ Pipe(i).pc # "done"
        /\ pipelines'[i].pc = "done"
        /\ pipelines'[i].outcome \in {"rated", "exhausted"})
       => ~(/\ Pipe(i).id \in DOMAIN tweetIDRatingCache'
            /\ tweetIDRatingCache'[Pipe(i).id].streaming = "true")]_vars

\* C38: the marker 'pending' is never part of a text getFullContext has
\* assembled: the thread history of a conversation is either the marker itself,
\* while the root assembly is in flight, or a text in which the marker does not
\* occur, and so is the history kept in the script-wide threadHist.
C38_PendingNeverPrepended ==
  /\ \A c \in Conversations :
       (dataset[c].set /\ dataset[c].threadHist # PendingMark)
       => \A k \in 1..Len(dataset[c].threadHist) : dataset[c].threadHist[k] # "pending"
  /\ \A k \in 1..Len(threadHist) : threadHist[k] # "pending"

\* C39: pendingRequests is never negative and is the number of attempts that
\* have been dispatched and have not returned yet; it is 0 when no attempt is
\* in flight.
C39_PendingRequestsCountsInFlight ==
  /\ pendingRequests >= 0
  /\ pendingRequests = Cardinality({i \in Ids : Pipe(i).pc = "inflight"})

\* two attempts are in flight at once, one of them after an attempt that ended
\* without a score
C39_Witness ==
  /\ pendingRequests = 2
  /\ \E i \in Ids : Pipe(i).pc = "inflight" /\ Pipe(i).attempt >= 2

\* C40: whenever every rating pipeline has concluded and no read of a stream
\* is still outstanding, the value stored under 'tweetRatings' is the
\* serialized in-memory cache: what streaming deltas, the finalization, the
\* update after the rating and a cache clear changed in memory has been
\* written to the store, whatever the debounce skipped in between.
C40_StoreEqualsCacheWhenQuiet ==
  (/\ \A i \in Ids : Pipe(i).pc = "done"
   /\ ~late.live)
  => storedRatings = SaveTweetRatings(tweetIDRatingCache)

====
